---- MODULE Spec2Model ----
(***************************************************************************)
(* Domain model pipeline of composable-ai-advisors:                        *)
(*   backend/domain_model/cache.py      ModelCache                         *)
(*   backend/domain_model/registry.py   ModelRegistry                      *)
(*   backend/domain_model/validator.py  ModelValidator                     *)
(*   backend/domain_model/loader.py     ModelLoader                        *)
(*   backend/domain_model/parser.py     ModelParser                        *)
(*   backend/domain_model/framework.py  DomainModelFramework (the facade)  *)
(*                                                                         *)
(* Python strings are sequences of one-character strings, so that split,   *)
(* strip, int() and the version pattern are computed, not assumed.         *)
(* Optional[T] is a sequence of length at most one: None is << >> and a    *)
(* value x is <<x>>.  A Python dict is a function whose DOMAIN is the key  *)
(* set; the insertion-ordered dict of the version history is a sequence of *)
(* [version, model] pairs in insertion order.                              *)
(***************************************************************************)
EXTENDS Integers, Sequences, FiniteSets, TLC

VARIABLES
    now,              \* datetime.utcnow(), in seconds
    ticks,            \* how many times the clock has advanced
    calls,            \* how many operations have completed
    default_ttl,      \* ModelCache.default_ttl
    cache,            \* ModelCache.cache : dict id -> CacheEntry
    stats,            \* ModelCache.stats : CacheStatistics
    getCalls,         \* completed ModelCache.get calls (history variable)
    models,           \* ModelRegistry.models : dict id -> DomainModel
    version_history,  \* ModelRegistry.version_history : dict id -> dict version -> DomainModel
    registered,       \* every model a register call has been given (history variable)
    framework_version,\* ModelValidator.framework_version
    metrics,          \* DomainModelFramework.metrics
    cache_ttl,        \* the cache_ttl argument of DomainModelFramework.__init__
    nextObj,          \* identity of the next DomainModel object the parser builds
    tasks,            \* the load_domain_model coroutines in flight on the event loop
    completed,        \* the load_domain_model calls that returned, in order (history variable)
    manager,          \* MCPConfigManager: _config, _framework and its calls in progress
    lastOp            \* the operation completed last: its arguments and its result

vars == <<now, ticks, calls, default_ttl, cache, stats, getCalls, models,
          version_history, registered, framework_version, metrics, cache_ttl, nextObj,
          tasks, completed, manager, lastOp>>

cacheVars == <<default_ttl, cache, stats, getCalls>>
registryVars == <<models, version_history, registered>>
facadeVars == <<framework_version, metrics, cache_ttl, nextObj, manager>>
taskVars == <<tasks, completed>>

-----------------------------------------------------------------------------
(* Bounds of the model.                                                    *)

MaxCalls == 3
MaxTicks == 1
NumTasks == 2

-----------------------------------------------------------------------------
(* Optional values.                                                        *)

None == << >>
Some(x) == <<x>>
IsNone(o) == o = << >>
Val(o) == o[1]

\* {}
EmptyDict == [k \in {} |-> None]

-----------------------------------------------------------------------------
(* Python str operations used by the code.                                 *)

Digits == <<"0", "1", "2", "3", "4", "5", "6", "7", "8", "9">>

IsDigit(c) == \E i \in 1..10 : Digits[i] = c

DigitVal(c) == (CHOOSE i \in 1..10 : Digits[i] = c) - 1

IsSpace(c) == c \in {" ", "\n", "\t"}

RECURSIVE LStrip(_)
LStrip(s) == IF s # << >> /\ IsSpace(Head(s)) THEN LStrip(Tail(s)) ELSE s

RECURSIVE RStrip(_)
RStrip(s) ==
    IF s # << >> /\ IsSpace(s[Len(s)]) THEN RStrip(SubSeq(s, 1, Len(s) - 1)) ELSE s

\* str.strip()
Strip(s) == RStrip(LStrip(s))

\* str.split(sep) for a one-character separator: always at least one part
RECURSIVE SplitFrom(_, _, _)
SplitFrom(s, sep, cur) ==
    IF s = << >> THEN <<cur>>
    ELSE IF Head(s) = sep THEN <<cur>> \o SplitFrom(Tail(s), sep, << >>)
    ELSE SplitFrom(Tail(s), sep, Append(cur, Head(s)))

Split(s, sep) == SplitFrom(s, sep, << >>)

AllDigits(s) == s # << >> /\ \A i \in 1..Len(s) : IsDigit(s[i])

\* int(s) succeeds on optional surrounding whitespace around decimal digits
\* (signs and underscores do not occur in the strings of this model)
IntOk(s) == AllDigits(Strip(s))

RECURSIVE DecVal(_, _)
DecVal(s, acc) == IF s = << >> THEN acc ELSE DecVal(Tail(s), 10 * acc + DigitVal(Head(s)))

IntVal(s) == DecVal(Strip(s), 0)

-----------------------------------------------------------------------------
(* Strings the operations are called with.                                 *)

V_1_0_0 == <<"1", ".", "0", ".", "0">>
V_2_1_0 == <<"2", ".", "1", ".", "0">>
V_1_9_9 == <<"1", ".", "9", ".", "9">>
V_1_9_0 == <<"1", ".", "9", ".", "0">>
V_1_10_0 == <<"1", ".", "1", "0", ".", "0">>
V_1_9 == <<"1", ".", "9">>
V_1_9_0_5 == <<"1", ".", "9", ".", "0", ".", "5">>
V_Empty == << >>

IdA == <<"a">>
IdB == <<"b">>

IdPool == {IdA, IdB}

\* models.py: DomainModelFormat
TURTLE == "turtle"
JSON == "json"
MARKDOWN == "markdown"

\* a DomainModel: its metadata and the identity of the Python object
Model(id, name, desc, ver, fmt, obj) ==
    [metadata |-> [domain_id |-> id, domain_name |-> name, description |-> desc,
                   version |-> ver, format |-> fmt, capabilities |-> << >>,
                   tools |-> << >>, rule_sets |-> << >>, expertise_keywords |-> << >>],
     obj |-> obj]

\* identities of DomainModel objects built by the caller
ObjPool == {1, 2}

NameOk == <<"N">>
DescOk == <<"D">>

\* ModelCache.__init__(default_ttl=300)
DefaultTtl == 300

\* DomainModelFramework.__init__: cache_ttl or 300
FrameworkDefaultTtl == 300

\* how far the clock moves in one step: to the last instant at which an
\* entry with ttl 1 is fresh, or past the expiry of an entry with the default ttl
Delays == {1, DefaultTtl + 1}

\* the default_ttl values a ModelCache is constructed with
DefaultTtls == {0, 1, DefaultTtl}

\* the ttl arguments of ModelCache.put
TtlArgs == {None, Some(0), Some(1)}

\* the models handed to a ModelCache directly
CacheModelPool == {Model(IdA, NameOk, DescOk, V_1_0_0, TURTLE, o) : o \in ObjPool}

\* the version strings of the models handed to a ModelRegistry directly: all
\* are strings the numeric comparator accepts
VersionPool == {V_1_0_0, V_2_1_0, V_1_9_9, V_1_9_0, V_1_10_0, V_1_9, V_1_9_0_5}

\* the models handed to a ModelRegistry directly
RegistryModelPool ==
    {Model(IdA, NameOk, DescOk, v, TURTLE, o) : v \in VersionPool, o \in ObjPool}
        \cup {Model(IdB, NameOk, DescOk, V_1_0_0, TURTLE, 1)}

\* the version arguments of ModelRegistry.get
VersionArgs == {None, Some(V_Empty), Some(V_1_0_0), Some(V_2_1_0), Some(V_1_9)}

V_1 == <<"1">>
Blank == <<" ">>

\* what a parser extracts from a document before _build_metadata: each
\* required field is a string or missing
Fields(id, name, desc, ver) ==
    [domain_id |-> id, domain_name |-> name, description |-> desc, version |-> ver]

\* a document: whether its syntax is accepted by the parser of its format
\* and the fields the parser finds in it (the objects of the model subject
\* in a graph, the top-level keys of a record, the front matter of prose);
\* besides the required fields a document may declare any other key
Doc(wellformed, fields) == [wellformed |-> wellformed, fields |-> fields]

\* a record document that keeps its fields under the "metadata" key
NestedDoc(metadata) ==
    [wellformed |-> TRUE, fields |-> Fields(None, None, None, None), metadata |-> metadata]

FileTtl == <<"m", ".", "t", "t", "l">>
FileJson == <<"m", ".", "J", "S", "O", "N">>
FileMd == <<"m", ".", "m", "d">>
FileTxt == <<"m", ".", "t", "x", "t">>
FileGone == <<"x", ".", "t", "t", "l">>

\* ModelLoader.base_dir
BaseDir == <<"d", "/">>

\* what the file system holds at a path when load_file looks: nothing, or
\* something with a name, a regular file or not (a directory), that can be
\* opened and read as text, or cannot
NoFile == [exists |-> FALSE, regular |-> FALSE, readable |-> FALSE, name |-> FileGone, doc |-> Doc(FALSE, Fields(None, None, None, None))]

FilePool ==
    {NoFile,
     [exists |-> TRUE, regular |-> TRUE, readable |-> FALSE, name |-> FileMd,
      doc |-> Doc(FALSE, Fields(None, None, None, None))],
     [exists |-> TRUE, regular |-> TRUE, readable |-> TRUE, name |-> FileTxt,
      doc |-> Doc(TRUE, Fields(Some(IdA), Some(NameOk), Some(DescOk), Some(V_1_0_0)))],
     [exists |-> TRUE, regular |-> TRUE, readable |-> TRUE, name |-> FileTtl, doc |-> Doc(FALSE, Fields(None, None, None, None))],
     [exists |-> TRUE, regular |-> TRUE, readable |-> TRUE, name |-> FileTtl,
      doc |-> Doc(TRUE, Fields(Some(IdA), Some(NameOk), Some(DescOk), Some(V_1_0_0)))],
     [exists |-> TRUE, regular |-> TRUE, readable |-> TRUE, name |-> FileTtl,
      doc |-> Doc(TRUE, Fields(Some(IdA), Some(NameOk), Some(DescOk), Some(V_2_1_0)))],
     [exists |-> TRUE, regular |-> TRUE, readable |-> TRUE, name |-> FileTtl,
      doc |-> Doc(TRUE, Fields(Some(Blank), Some(NameOk), Some(DescOk), Some(V_1_0_0)))],
     [exists |-> TRUE, regular |-> TRUE, readable |-> TRUE, name |-> FileJson,
      doc |-> Doc(TRUE, Fields(Some(IdA), Some(NameOk), Some(DescOk), Some(V_1_9_9)))],
     [exists |-> TRUE, regular |-> TRUE, readable |-> TRUE, name |-> FileJson,
      doc |-> Doc(TRUE, Fields(Some(IdA), Some(Blank), Some(V_Empty), Some(V_1)))],
     [exists |-> TRUE, regular |-> TRUE, readable |-> TRUE, name |-> FileJson,
      doc |-> Doc(TRUE, Fields(Some(IdA), Some(NameOk), Some(DescOk), None))],
     [exists |-> TRUE, regular |-> TRUE, readable |-> TRUE, name |-> FileMd,
      doc |-> Doc(TRUE, Fields(Some(IdB), Some(NameOk), Some(DescOk), Some(V_1_0_0)))]}

\* the files of load_domain_model calls that run concurrently: two versions
\* of one id, another id, a missing file, a file that cannot be read, a
\* document its parser rejects and a model that fails validation
ConcurrentFilePool ==
    {NoFile,
     [exists |-> TRUE, regular |-> TRUE, readable |-> FALSE, name |-> FileMd,
      doc |-> Doc(FALSE, Fields(None, None, None, None))],
     [exists |-> TRUE, regular |-> TRUE, readable |-> TRUE, name |-> FileTtl, doc |-> Doc(FALSE, Fields(None, None, None, None))],
     [exists |-> TRUE, regular |-> TRUE, readable |-> TRUE, name |-> FileTtl,
      doc |-> Doc(TRUE, Fields(Some(IdA), Some(NameOk), Some(DescOk), Some(V_1_0_0)))],
     [exists |-> TRUE, regular |-> TRUE, readable |-> TRUE, name |-> FileJson,
      doc |-> Doc(TRUE, Fields(Some(IdA), Some(NameOk), Some(DescOk), Some(V_1_9_9)))],
     [exists |-> TRUE, regular |-> TRUE, readable |-> TRUE, name |-> FileJson,
      doc |-> Doc(TRUE, Fields(Some(IdA), Some(Blank), Some(V_Empty), Some(V_1)))],
     [exists |-> TRUE, regular |-> TRUE, readable |-> TRUE, name |-> FileMd,
      doc |-> Doc(TRUE, Fields(Some(IdB), Some(NameOk), Some(DescOk), Some(V_1_0_0)))]}

\* the models, files and arguments of the calls made on a facade together
\* with calls made on its cache and its registry directly
PartsModelPool ==
    {Model(IdA, NameOk, DescOk, V_1_0_0, TURTLE, 1), Model(IdA, NameOk, DescOk, V_1_9_9, TURTLE, 1),
     Model(IdB, NameOk, DescOk, V_1_0_0, TURTLE, 1)}

PartsFilePool ==
    {[exists |-> TRUE, regular |-> TRUE, readable |-> TRUE, name |-> FileTtl,
      doc |-> Doc(TRUE, Fields(Some(IdA), Some(NameOk), Some(DescOk), Some(V_1_0_0)))],
     [exists |-> TRUE, regular |-> TRUE, readable |-> TRUE, name |-> FileJson,
      doc |-> Doc(TRUE, Fields(Some(IdA), Some(NameOk), Some(DescOk), Some(V_1_9_9)))],
     [exists |-> TRUE, regular |-> TRUE, readable |-> TRUE, name |-> FileMd,
      doc |-> Doc(TRUE, Fields(Some(IdB), Some(NameOk), Some(DescOk), Some(V_1_0_0)))]}

PartsGetArgs == {<<IdA, None>>, <<IdA, Some(V_1_0_0)>>}

\* the paths detect_format is called with: every beginning followed by
\* every ending
PathStems ==
    {<<"m">>, <<"a", ".", "b">>, <<"d", ".", "t", "t", "l", "/", "m">>, <<"d", "/">>,
     <<".">>, <<>>}

PathEndings ==
    {<<>>, <<".", "t", "t", "l">>, <<".", "T", "T", "L">>, <<".", "T", "t", "l">>,
     <<".", "t", "u", "r", "t", "l", "e">>, <<".", "T", "U", "R", "T", "L", "E">>,
     <<".", "j", "s", "o", "n">>, <<".", "J", "s", "o", "n">>, <<".", "m", "d">>,
     <<".", "M", "D">>, <<".", "m", "a", "r", "k", "d", "o", "w", "n">>,
     <<".", "m", "k", "d">>, <<".", "t", "x", "t">>, <<".", "y", "a", "m", "l">>,
     <<".">>, <<".", "t", "t", "l", ".", "b", "a", "k">>,
     <<".", "b", "a", "k", ".", "t", "t", "l">>, <<".", "t", "t", "l", "/">>,
     <<".", "j", "s", "o", "n", "/", "x">>, <<".", "t", "t", "l", " ">>,
     <<".", "t", "t">>, <<".", "t", "t", "l", "l">>}

PathPool == {stem \o ending : stem \in PathStems, ending \in PathEndings}

FileMkd == <<"m", ".", "M", "k", "d">>

StrA == <<"a">>
StrB == <<"b">>
StrAb == <<"a", "b">>
StrUpperB == <<"B">>

\* the files of load_domain_model calls whose documents hold more than the
\* required fields: lists, a format and a file_path of their own
DeclaringFilePool ==
    {NoFile,
     [exists |-> TRUE, regular |-> TRUE, readable |-> TRUE, name |-> FileTxt,
      doc |-> Doc(TRUE, Fields(Some(IdA), Some(NameOk), Some(DescOk), Some(V_1_0_0)))],
     [exists |-> TRUE, regular |-> TRUE, readable |-> TRUE, name |-> FileMd,
      doc |-> Doc(TRUE, Fields(Some(IdA), Some(NameOk), Some(DescOk), Some(V_1_0_0))
                          @@ [format |-> TURTLE, file_path |-> FileTtl,
                              capabilities |-> <<StrB, StrA>>])],
     [exists |-> TRUE, regular |-> TRUE, readable |-> TRUE, name |-> FileMkd,
      doc |-> Doc(TRUE, Fields(Some(IdB), Some(Blank), Some(DescOk), Some(V_1_0_0))
                          @@ [format |-> JSON])],
     [exists |-> TRUE, regular |-> TRUE, readable |-> TRUE, name |-> FileJson,
      doc |-> NestedDoc([domain_id |-> Some(IdA), domain_name |-> Some(NameOk),
                         description |-> Some(DescOk), version |-> Some(V_1_9_9),
                         format |-> MARKDOWN, file_path |-> FileMd, tools |-> <<StrA, StrA>>])],
     [exists |-> TRUE, regular |-> TRUE, readable |-> TRUE, name |-> FileJson,
      doc |-> NestedDoc([domain_id |-> Some(IdA), domain_name |-> Some(NameOk),
                         description |-> Some(DescOk), format |-> JSON])],
     [exists |-> TRUE, regular |-> TRUE, readable |-> TRUE, name |-> FileJson,
      doc |-> Doc(TRUE, Fields(Some(IdB), Some(NameOk), Some(DescOk), Some(V_1_0_0))
                          @@ [format |-> TURTLE, rule_sets |-> <<StrAb>>])],
     [exists |-> TRUE, regular |-> TRUE, readable |-> TRUE, name |-> FileTtl,
      doc |-> Doc(TRUE, Fields(Some(IdA), Some(NameOk), Some(DescOk), Some(V_1_0_0))
                          @@ [format |-> JSON, expertise_keywords |-> <<StrB, StrUpperB, StrA>>])],
     [exists |-> TRUE, regular |-> TRUE, readable |-> TRUE, name |-> FileTtl,
      doc |-> Doc(TRUE, Fields(Some(IdA), Some(NameOk), Some(V_Empty), Some(V_1_0_0)))]}

\* the lists a document holds under one of the four list keys, in the
\* order the parser meets them
ListPool == {<< >>, <<StrA>>, <<StrA, StrB>>, <<StrB, StrA>>, <<StrA, StrA>>,
             <<StrUpperB, StrAb, StrA>>}

\* the keys a document declares besides the required fields
DeclaredListsPool ==
    {EmptyDict}
        \cup {[capabilities |-> c, tools |-> t, rule_sets |-> << >>, expertise_keywords |-> c] :
                 c \in ListPool, t \in ListPool}

\* the documents parse is called with, in files of the three formats
ParseDocPool ==
    {Doc(TRUE, Fields(Some(IdA), Some(NameOk), Some(DescOk), Some(V_1_0_0)) @@ lists) :
        lists \in DeclaredListsPool}
        \cup {NestedDoc([domain_id |-> Some(IdA), domain_name |-> Some(NameOk),
                         description |-> Some(DescOk), version |-> Some(V_1_0_0)] @@ lists) :
                 lists \in {EmptyDict, [tools |-> <<StrB, StrA>>]}}
        \cup {Doc(FALSE, Fields(None, None, None, None)),
              Doc(TRUE, Fields(Some(IdA), None, Some(DescOk), Some(V_1_0_0)))}

ParseFilePool ==
    {[exists |-> TRUE, regular |-> TRUE, readable |-> TRUE, name |-> name, doc |-> doc] :
        name \in {FileTtl, FileJson, FileMd}, doc \in ParseDocPool}

\* a record holding key with value, or not holding it
WithOrWithout(key, values) == {EmptyDict} \cup {[k \in {key} |-> v] : v \in values}

NameB == <<"M">>

\* the sub-records a record holds under "metadata"
NestedMetadataPool ==
    {EmptyDict,
     [domain_id |-> Some(IdB), domain_name |-> Some(NameB), description |-> Some(DescOk),
      version |-> Some(V_2_1_0)],
     [domain_id |-> Some(IdB), domain_name |-> Some(NameB), description |-> Some(DescOk),
      version |-> Some(V_2_1_0), tools |-> <<StrB>>],
     [domain_id |-> Some(IdB), version |-> Some(V_2_1_0)]}

\* the records json.loads returns: each required key is held with a string,
\* held with null, or not held; so are the lists, "metadata" and "content"
JsonDataPool ==
    {id @@ name @@ desc @@ ver @@ lists @@ nested @@ content :
        id \in WithOrWithout("domain_id", {None, Some(IdA)}),
        name \in WithOrWithout("domain_name", {None, Some(NameOk)}),
        desc \in WithOrWithout("description", {Some(DescOk)}),
        ver \in WithOrWithout("version", {Some(V_1_0_0)}),
        lists \in WithOrWithout("tools", {<<StrA>>}),
        nested \in WithOrWithout("metadata", NestedMetadataPool),
        content \in WithOrWithout("content", {[body |-> StrAb]})}

\* the model subjects of graphs: URIs whose local name follows '#' or '/',
\* URIs that end in '#' or '/', a blank node, and no model subject at all
SubjectPool ==
    {Some([uri |-> TRUE, text |-> <<"h", ":", "/", "o", "#", "m">>]),
     Some([uri |-> TRUE, text |-> <<"h", ":", "/", "o", "/", "t">>]),
     Some([uri |-> TRUE, text |-> <<"h", ":", "/", "o", "#", "a", "/", "b">>]),
     Some([uri |-> TRUE, text |-> <<"h", ":", "/", "o", "#">>]),
     Some([uri |-> TRUE, text |-> <<"h", ":", "/", "o", "/">>]),
     Some([uri |-> FALSE, text |-> <<"n", "1">>]),
     None}

\* the statements that give a graph its three required values
RequiredObjects ==
    [p \in {"rdfs:label"} |-> <<NameOk>>] @@ [p \in {"rdfs:comment"} |-> <<DescOk>>]
        @@ [p \in {"caa:version"} |-> <<V_1_0_0>>]

\* the graphs _parse_turtle looks at: every subject with and without an
\* explicit id (with text, or the empty literal) in either namespace; each
\* required value under its primary predicate (once, twice in either order
\* of iteration, or the empty literal), its secondary predicate, both or
\* neither; lists under the primary predicate, the secondary, both or
\* neither, in several orders of iteration
GraphPool ==
    {[subject |-> subject, objects |-> id @@ alt @@ RequiredObjects] :
        subject \in SubjectPool,
        id \in WithOrWithout("caa:domainId", {<<StrA>>, << << >> >>}),
        alt \in WithOrWithout("domain:domainId", {<<StrB>>})}
    \cup
    {[subject |-> Some([uri |-> TRUE, text |-> <<"h", ":", "/", "o", "#", "m">>]),
      objects |-> name @@ name_alt @@ desc @@ desc_alt @@ ver @@ ver_alt] :
        name \in WithOrWithout("rdfs:label", {<<NameOk>>, <<NameOk, StrA>>, <<StrA, NameOk>>,
                                              << << >> >>}),
        name_alt \in WithOrWithout("domain:domainName", {<<NameB>>}),
        desc \in WithOrWithout("rdfs:comment", {<<DescOk>>}),
        desc_alt \in WithOrWithout("domain:description", {<<StrAb>>}),
        ver \in WithOrWithout("caa:version", {<<V_1_0_0>>}),
        ver_alt \in WithOrWithout("domain:version", {<<V_2_1_0>>})}
    \cup
    {[subject |-> Some([uri |-> TRUE, text |-> <<"h", ":", "/", "o", "#", "m">>]),
      objects |-> cap @@ cap_alt @@ tool @@ tool_alt @@ RequiredObjects] :
        cap \in WithOrWithout("caa:capability", {<<StrA, StrB>>, <<StrB, StrA>>,
                                                 <<StrUpperB, StrAb, StrA>>, <<StrA, StrA>>}),
        cap_alt \in WithOrWithout("domain:capability", {<<StrAb>>, <<StrB, StrUpperB>>}),
        tool \in WithOrWithout("caa:usesTool", {<<StrB, StrA>>}),
        tool_alt \in WithOrWithout("domain:tool", {<<StrAb, StrA>>})}

\* the three-dash marker of front matter
Marker == <<"-", "-", "-">>

\* one line of a key/value document; the word of a key is one element of
\* the text, as no operation of the code looks inside it
YamlLine(key, value) == <<key, ":", " ">> \o value \o <<"\n">>

FrontMatterFull ==
    <<"\n">> \o YamlLine("domain_id", StrA) \o YamlLine("domain_name", StrB)
        \o YamlLine("description", StrAb) \o YamlLine("version", V_1_0_0)

\* what stands between the markers: nothing, blank lines, key/value lines,
\* a key given twice, a flow sequence that is never closed, a value with a
\* second ': ', a plain scalar, a scalar after key/value lines
RawMetaPool ==
    {<< >>, <<"\n">>, <<" ", "\n">>,
     FrontMatterFull,
     <<"\n">> \o YamlLine("domain_id", StrA),
     FrontMatterFull \o YamlLine("version", V_2_1_0),
     FrontMatterFull \o <<"tools", ":", " ", "[", "a", "\n">>,
     <<"\n", "domain_id", ":", " ", "[", "\n">>,
     <<"\n", "domain_id", ":", " ", "a", ":", " ", "b", "\n">>,
     <<"\n", "a", "\n">>,
     <<"\n">> \o YamlLine("domain_id", StrA) \o <<"a", "\n">>}

\* the texts _parse_markdown is called with: with and without an opening
\* marker at the start, with and without a second marker, and with a third
MarkdownTextPool ==
    {opening \o raw \o closing \o body :
        opening \in {<< >>, Marker, <<" ">> \o Marker},
        raw \in RawMetaPool,
        closing \in {<< >>, Marker},
        body \in {<< >>, <<"\n", "b", " ", "\n">>, <<"b">> \o Marker \o <<"c">>}}

\* the files a configuration names: two models of different ids, a model
\* that fails validation and a file that is not there
FileModelA ==
    [exists |-> TRUE, regular |-> TRUE, readable |-> TRUE, name |-> FileTtl,
     doc |-> Doc(TRUE, Fields(Some(IdA), Some(NameOk), Some(DescOk), Some(V_1_0_0)))]

FileModelB ==
    [exists |-> TRUE, regular |-> TRUE, readable |-> TRUE, name |-> FileMd,
     doc |-> Doc(TRUE, Fields(Some(IdB), Some(NameOk), Some(DescOk), Some(V_1_0_0)))]

FileInvalid ==
    [exists |-> TRUE, regular |-> TRUE, readable |-> TRUE, name |-> FileJson,
     doc |-> Doc(TRUE, Fields(Some(IdA), Some(Blank), Some(V_Empty), Some(V_1)))]

\* DomainModelsConfig: preload and files
Config(preload, files) == [preload |-> preload, files |-> files]

\* the configurations load() leaves in the manager: the defaults, or what
\* the configuration file says
ConfigPool ==
    {Config(FALSE, << >>), Config(TRUE, << >>), Config(FALSE, <<FileModelA>>),
     Config(TRUE, <<FileModelA>>), Config(TRUE, <<FileModelA, FileModelB>>),
     Config(TRUE, <<NoFile, FileModelB>>), Config(TRUE, <<FileInvalid, FileModelA>>)}

FileDirTtl == <<"s", ".", "t", "t", "l">>
FileDir == <<"s">>

\* the files at the paths load_multiple is called with: two that load, a
\* missing one, one with an unsupported extension, one that cannot be read
\* and two directories
GatherFilePool ==
    {NoFile,
     [exists |-> TRUE, regular |-> TRUE, readable |-> TRUE, name |-> FileTxt,
      doc |-> Doc(TRUE, Fields(Some(IdA), Some(NameOk), Some(DescOk), Some(V_1_0_0)))],
     [exists |-> TRUE, regular |-> TRUE, readable |-> FALSE, name |-> FileMd,
      doc |-> Doc(FALSE, Fields(None, None, None, None))],
     [exists |-> TRUE, regular |-> FALSE, readable |-> FALSE, name |-> FileDirTtl,
      doc |-> Doc(FALSE, Fields(None, None, None, None))],
     [exists |-> TRUE, regular |-> FALSE, readable |-> FALSE, name |-> FileDir,
      doc |-> Doc(FALSE, Fields(None, None, None, None))],
     [exists |-> TRUE, regular |-> TRUE, readable |-> TRUE, name |-> FileTtl,
      doc |-> Doc(TRUE, Fields(Some(IdA), Some(NameOk), Some(DescOk), Some(V_1_0_0)))],
     [exists |-> TRUE, regular |-> TRUE, readable |-> TRUE, name |-> FileJson,
      doc |-> Doc(TRUE, Fields(Some(IdB), Some(NameOk), Some(DescOk), Some(V_1_9_9)))]}

\* the framework_version arguments a DomainModelFramework is constructed with
FrameworkVersions == {V_1_0_0}

\* the cache_ttl arguments a DomainModelFramework is constructed with
CacheTtlArgs == {None, Some(1)}

\* the arguments of get_domain_model
FacadeGetArgs ==
    {<<IdA, v>> : v \in {None, Some(V_Empty), Some(V_1_0_0), Some(V_1_9_9)}}
        \cup {<<IdB, None>>}

V_1_0_0_NL == <<"1", ".", "0", ".", "0", "\n">>
V_3_0_0 == <<"3", ".", "0", ".", "0">>
V_0_9_9 == <<"0", ".", "9", ".", "9">>
V_10_0_0 == <<"1", "0", ".", "0", ".", "0">>
V_02_0_0 == <<"0", "2", ".", "0", ".", "0">>

\* the models validate is called with: every required field filled, blank
\* or empty, and version strings of the pattern and near it
ValidatorVersionPool ==
    {V_1_0_0, V_2_1_0, V_3_0_0, V_0_9_9, V_10_0_0, V_02_0_0, V_1_10_0, V_1_0_0_NL,
     V_Empty, Blank, V_1, V_1_9, V_1_9_0_5,
     <<" ", "1", ".", "0", ".", "0">>, <<"1", ".", "0", ".", "0", " ">>,
     <<"1", ".", ".", "0">>, <<"1", ".", "0", ".">>, <<".", "1", ".", "0">>,
     <<"a", ".", "b", ".", "c">>, <<"3", ".", "x", ".", "0">>, <<"v", "1", ".", "0", ".", "0">>}

ValidatorModelPool ==
    {Model(id, name, desc, ver, JSON, 1) :
        id \in {IdA, Blank, V_Empty}, name \in {NameOk, <<" ", "\n">>},
        desc \in {DescOk, <<"\t">>}, ver \in ValidatorVersionPool}

\* the framework_version arguments a ModelValidator is constructed with
ValidatorFrameworkVersions == {V_1_0_0, V_2_1_0}

-----------------------------------------------------------------------------
(* Exceptions.  The message of an exception is kept as the parts its       *)
(* f-string is built from: the fixed text, the path interpolated into it,  *)
(* the joined detail, and the exception whose str() is interpolated.       *)

Error(kind, text, file_path, detail, cause) ==
    [kind |-> kind, text |-> text, file_path |-> file_path, detail |-> detail,
     cause |-> cause]

NoError == Error("", "", << >>, << >>, None)

-----------------------------------------------------------------------------
(* The record of the operation completed last.                             *)

Op(name, id, version, ttl, model, ret, versions, raised) ==
    [op |-> name, id |-> id, version |-> version, ttl |-> ttl, model |-> model,
     ret |-> ret, versions |-> versions, raised |-> raised, at |-> now,
     error |-> NoError, file |-> NoFile, again |-> FALSE]

\* the record of an operation on what the file system holds at its path
\* argument, with the exception it raised
OpOnFile(op, file, error) == [op EXCEPT !.file = file, !.error = error]

NoOp == [op |-> "init", id |-> << >>, version |-> None, ttl |-> None, model |-> None,
         ret |-> None, versions |-> << >>, raised |-> "no", at |-> 0, error |-> NoError,
         file |-> NoFile, again |-> FALSE]

\* MCPConfigManager.__init__: the default configuration and no framework;
\* built counts the frameworks built so far, ops the calls of load and the
\* reads of the framework made through the manager, and preloads holds the preload_domain_models calls that have
\* created their coroutines
NoManager ==
    [_config |-> Config(FALSE, << >>), _framework |-> None, built |-> 0, ops |-> 0,
     preloads |-> << >>]

\* the record of an operation, marked when the operation before it was the
\* same operation on the same model
OpAgain(op) == [op EXCEPT !.again = (lastOp.op = op.op /\ lastOp.model = op.model)]

\* the record of a call that repeats the call before it, with the same
\* arguments and at the same time
OpRepeated(op) ==
    [op EXCEPT !.again = (/\ lastOp.op = op.op
                          /\ lastOp.id = op.id
                          /\ lastOp.version = op.version
                          /\ lastOp.at = op.at)]

-----------------------------------------------------------------------------
(* cache.py                                                                *)
(* Line 38 of the file, self.stats = CacheStatistics(), is indented one    *)
(* level short of the body of __init__; it is read as part of __init__,    *)
(* which every method of the class relies on.                              *)

CacheEntry(model, cached_at, ttl) == [model |-> model, cached_at |-> cached_at, ttl |-> ttl]

\* CacheEntry.is_expired with >= for >
is_expired_inclusive(entry) == now >= entry.cached_at + entry.ttl

is_expired(entry) == now > entry.cached_at + entry.ttl

\* dict.pop(key, None)
DictPop(d, key) == [k \in (DOMAIN d) \ {key} |-> d[k]]

\* d[key] = value
DictSet(d, key, value) == [k \in (DOMAIN d) \cup {key} |-> IF k = key THEN value ELSE d[k]]

\* ModelCache.get with the miss of the expired branch left out
CacheGetEffect_no_expired_miss(domain_id) ==
    IF domain_id \notin DOMAIN cache
    THEN [cache |-> cache, stats |-> [stats EXCEPT !.misses = @ + 1], ret |-> None]
    ELSE IF is_expired(cache[domain_id])
    THEN [cache |-> DictPop(cache, domain_id), stats |-> stats, ret |-> None]
    ELSE [cache |-> cache, stats |-> [stats EXCEPT !.hits = @ + 1],
          ret |-> Some(cache[domain_id].model)]

\* ModelCache.get
CacheGetEffect(domain_id) ==
    IF domain_id \notin DOMAIN cache
    THEN [cache |-> cache, stats |-> [stats EXCEPT !.misses = @ + 1], ret |-> None]
    ELSE IF is_expired(cache[domain_id])
    THEN [cache |-> DictPop(cache, domain_id),
          stats |-> [stats EXCEPT !.misses = @ + 1], ret |-> None]
    ELSE [cache |-> cache, stats |-> [stats EXCEPT !.hits = @ + 1],
          ret |-> Some(cache[domain_id].model)]

\* ttl or self.default_ttl
TtlOrDefault(ttl) == IF IsNone(ttl) \/ Val(ttl) = 0 THEN default_ttl ELSE Val(ttl)

\* ModelCache.put keeping an entry the map already holds
CachePutEffect_keep_existing(c, st, domain_id, model, ttl) ==
    LET c2 == IF domain_id \in DOMAIN c THEN c
              ELSE DictSet(c, domain_id, CacheEntry(model, now, TtlOrDefault(ttl)))
    IN  [cache |-> c2, stats |-> [st EXCEPT !.size = Cardinality(DOMAIN c2)]]

\* ModelCache.put, applied to a cache map c
CachePutEffect(c, st, domain_id, model, ttl) ==
    LET c2 == DictSet(c, domain_id, CacheEntry(model, now, TtlOrDefault(ttl)))
    IN  [cache |-> c2, stats |-> [st EXCEPT !.size = Cardinality(DOMAIN c2)]]

\* the clock advances between operations
Tick(d) ==
    /\ ticks < MaxTicks
    /\ now' = now + d
    /\ ticks' = ticks + 1
    /\ UNCHANGED <<calls, cacheVars, registryVars, facadeVars, taskVars, lastOp>>

CacheGet(domain_id) ==
    /\ calls < MaxCalls
    /\ \E r \in {CacheGetEffect(domain_id)} :
           /\ cache' = r.cache
           /\ stats' = r.stats
           /\ lastOp' = Op("cache.get", domain_id, None, None, None, r.ret, << >>, "no")
    /\ getCalls' = getCalls + 1
    /\ calls' = calls + 1
    /\ UNCHANGED <<now, ticks, default_ttl, registryVars, facadeVars, taskVars>>

CachePut(domain_id, model, ttl) ==
    /\ calls < MaxCalls
    /\ \E r \in {CachePutEffect(cache, stats, domain_id, model, ttl)} :
           /\ cache' = r.cache
           /\ stats' = r.stats
    /\ lastOp' = Op("cache.put", domain_id, None, ttl, Some(model), None, << >>, "no")
    /\ calls' = calls + 1
    /\ UNCHANGED <<now, ticks, default_ttl, getCalls, registryVars, facadeVars, taskVars>>

\* ModelCache.invalidate
CacheInvalidate(domain_id) ==
    /\ calls < MaxCalls
    /\ cache' = DictPop(cache, domain_id)
    /\ stats' = [stats EXCEPT !.size = Cardinality(DOMAIN cache')]
    /\ lastOp' = Op("cache.invalidate", domain_id, None, None, None, None, << >>, "no")
    /\ calls' = calls + 1
    /\ UNCHANGED <<now, ticks, default_ttl, getCalls, registryVars, facadeVars, taskVars>>

\* ModelCache.invalidate_all clearing the registry of the facade as well
CacheInvalidateAll_clears_registry ==
    /\ calls < MaxCalls
    /\ cache' = EmptyDict
    /\ stats' = [stats EXCEPT !.size = 0]
    /\ models' = EmptyDict
    /\ version_history' = EmptyDict
    /\ lastOp' = Op("cache.invalidate_all", << >>, None, None, None, None, << >>, "no")
    /\ calls' = calls + 1
    /\ UNCHANGED <<now, ticks, default_ttl, getCalls, registered, facadeVars, taskVars>>

\* ModelCache.invalidate_all
CacheInvalidateAll ==
    /\ calls < MaxCalls
    /\ cache' = EmptyDict
    /\ stats' = [stats EXCEPT !.size = 0]
    /\ lastOp' = Op("cache.invalidate_all", << >>, None, None, None, None, << >>, "no")
    /\ calls' = calls + 1
    /\ UNCHANGED <<now, ticks, default_ttl, getCalls, registryVars, facadeVars, taskVars>>

-----------------------------------------------------------------------------
(* registry.py                                                             *)

\* the non-empty parts of version.split(".")
VersionParts(version) == SelectSeq(Split(version, "."), LAMBDA part : part # << >>)

\* whether int(part) succeeds on every part (otherwise _version_key raises)
VersionKeyOk(version) ==
    LET parts == VersionParts(version)
    IN  \A i \in 1..Len(parts) : IntOk(parts[i])

\* ModelRegistry._version_key
_version_key(version) ==
    LET parts == VersionParts(version)
        ints == [i \in 1..Len(parts) |-> IntVal(parts[i])]
        padded == ints \o [i \in 1..(IF Len(ints) < 3 THEN 3 - Len(ints) ELSE 0) |-> 0]
    IN  SubSeq(padded, 1, 3)

\* tuple comparison left < right, as Python compares tuples
RECURSIVE TupleLess(_, _)
TupleLess(l, r) ==
    IF l = << >> THEN r # << >>
    ELSE IF r = << >> THEN FALSE
    ELSE IF Head(l) # Head(r) THEN Head(l) < Head(r)
    ELSE TupleLess(Tail(l), Tail(r))

\* position of a character in the order of str comparison
CharCode(c) == IF c = "." THEN 0 ELSE DigitVal(c) + 1

\* ModelRegistry._compare_versions comparing the version strings themselves
_compare_versions_lexical(left, right) ==
    LET left_key == [i \in 1..Len(left) |-> CharCode(left[i])]
        right_key == [i \in 1..Len(right) |-> CharCode(right[i])]
    IN  (IF TupleLess(right_key, left_key) THEN 1 ELSE 0)
            - (IF TupleLess(left_key, right_key) THEN 1 ELSE 0)

\* ModelRegistry._compare_versions
_compare_versions(left, right) ==
    LET left_key == _version_key(left)
        right_key == _version_key(right)
    IN  (IF TupleLess(right_key, left_key) THEN 1 ELSE 0)
            - (IF TupleLess(left_key, right_key) THEN 1 ELSE 0)

\* position of a version key in an insertion-ordered history dict, 0 if absent
HistoryIndex(h, version) ==
    IF \E i \in 1..Len(h) : h[i].version = version
    THEN CHOOSE i \in 1..Len(h) : h[i].version = version
    ELSE 0

\* history.get(version)
HistoryGet(h, version) ==
    IF HistoryIndex(h, version) = 0 THEN None ELSE Some(h[HistoryIndex(h, version)].model)

\* history.setdefault(version, model) for history[version] = model
HistorySet_keep_first(h, version, model) ==
    IF HistoryIndex(h, version) = 0
    THEN Append(h, [version |-> version, model |-> model])
    ELSE h

\* history.append((version, model)) for history[version] = model
HistorySet_append(h, version, model) == Append(h, [version |-> version, model |-> model])

\* history[version] = model: a present key keeps its position
HistorySet(h, version, model) ==
    IF HistoryIndex(h, version) = 0
    THEN Append(h, [version |-> version, model |-> model])
    ELSE [h EXCEPT ![HistoryIndex(h, version)] = [version |-> version, model |-> model]]

\* self.version_history.get(domain_id, {})
HistoryOf(vh, domain_id) == IF domain_id \in DOMAIN vh THEN vh[domain_id] ELSE << >>

\* dict.get(key)
DictGet(d, key) == IF key \in DOMAIN d THEN Some(d[key]) ELSE None

\* ModelRegistry.register with > for >=
RegisterEffect_strict(ms, vh, model) ==
    LET domain_id == model.metadata.domain_id
        version == model.metadata.version
        vh2 == DictSet(vh, domain_id, HistorySet(HistoryOf(vh, domain_id), version, model))
    IN  IF domain_id \notin DOMAIN ms
        THEN [models |-> DictSet(ms, domain_id, model), version_history |-> vh2, raised |-> "no"]
        ELSE IF ~(VersionKeyOk(version) /\ VersionKeyOk(ms[domain_id].metadata.version))
        THEN [models |-> ms, version_history |-> vh2, raised |-> "ValueError"]
        ELSE IF _compare_versions(version, ms[domain_id].metadata.version) > 0
        THEN [models |-> DictSet(ms, domain_id, model), version_history |-> vh2, raised |-> "no"]
        ELSE [models |-> ms, version_history |-> vh2, raised |-> "no"]

\* ModelRegistry.register with the history of the id started afresh
RegisterEffect_fresh_history(ms, vh, model) ==
    LET domain_id == model.metadata.domain_id
        version == model.metadata.version
        vh2 == DictSet(vh, domain_id, HistorySet(<< >>, version, model))
    IN  IF domain_id \notin DOMAIN ms
        THEN [models |-> DictSet(ms, domain_id, model), version_history |-> vh2, raised |-> "no"]
        ELSE IF ~(VersionKeyOk(version) /\ VersionKeyOk(ms[domain_id].metadata.version))
        THEN [models |-> ms, version_history |-> vh2, raised |-> "ValueError"]
        ELSE IF _compare_versions(version, ms[domain_id].metadata.version) >= 0
        THEN [models |-> DictSet(ms, domain_id, model), version_history |-> vh2, raised |-> "no"]
        ELSE [models |-> ms, version_history |-> vh2, raised |-> "no"]

\* ModelRegistry.register setting the pointer of a new id without writing
\* its history
RegisterEffect_first_skips_history(ms, vh, model) ==
    LET domain_id == model.metadata.domain_id
        version == model.metadata.version
        vh2 == DictSet(vh, domain_id, HistorySet(HistoryOf(vh, domain_id), version, model))
    IN  IF domain_id \notin DOMAIN ms
        THEN [models |-> DictSet(ms, domain_id, model), version_history |-> vh, raised |-> "no"]
        ELSE IF ~(VersionKeyOk(version) /\ VersionKeyOk(ms[domain_id].metadata.version))
        THEN [models |-> ms, version_history |-> vh2, raised |-> "ValueError"]
        ELSE IF _compare_versions(version, ms[domain_id].metadata.version) >= 0
        THEN [models |-> DictSet(ms, domain_id, model), version_history |-> vh2, raised |-> "no"]
        ELSE [models |-> ms, version_history |-> vh2, raised |-> "no"]

\* ModelRegistry.register, applied to the maps ms and vh; the history is
\* written before the comparison, which raises on a version int() rejects
RegisterEffect(ms, vh, model) ==
    LET domain_id == model.metadata.domain_id
        version == model.metadata.version
        vh2 == DictSet(vh, domain_id, HistorySet(HistoryOf(vh, domain_id), version, model))
    IN  IF domain_id \notin DOMAIN ms
        THEN [models |-> DictSet(ms, domain_id, model), version_history |-> vh2, raised |-> "no"]
        ELSE IF ~(VersionKeyOk(version) /\ VersionKeyOk(ms[domain_id].metadata.version))
        THEN [models |-> ms, version_history |-> vh2, raised |-> "ValueError"]
        ELSE IF _compare_versions(version, ms[domain_id].metadata.version) >= 0
        THEN [models |-> DictSet(ms, domain_id, model), version_history |-> vh2, raised |-> "no"]
        ELSE [models |-> ms, version_history |-> vh2, raised |-> "no"]

\* ModelRegistry.get, applied to the maps ms and vh
RegistryGetEffect(ms, vh, domain_id, version) ==
    IF ~IsNone(version) /\ Val(version) # << >>
    THEN HistoryGet(HistoryOf(vh, domain_id), Val(version))
    ELSE DictGet(ms, domain_id)

\* list.sort(key=_version_key, reverse=True): stable, descending
RECURSIVE InsertDesc(_, _)
InsertDesc(sorted, v) ==
    IF sorted = << >> THEN <<v>>
    ELSE IF TupleLess(_version_key(Head(sorted)), _version_key(v))
    THEN <<v>> \o sorted
    ELSE <<Head(sorted)>> \o InsertDesc(Tail(sorted), v)

RECURSIVE SortDesc(_, _)
SortDesc(todo, sorted) ==
    IF todo = << >> THEN sorted ELSE SortDesc(Tail(todo), InsertDesc(sorted, Head(todo)))

\* ModelRegistry.get_versions without reverse=True
RECURSIVE Reverse(_)
Reverse(q) == IF q = << >> THEN << >> ELSE Append(Reverse(Tail(q)), Head(q))

get_versions_ascending(vh, domain_id) ==
    LET h == HistoryOf(vh, domain_id)
        versions == [i \in 1..Len(h) |-> h[i].version]
    IN  Reverse(SortDesc(Reverse(versions), << >>))

\* ModelRegistry.get_versions
get_versions(vh, domain_id) ==
    LET h == HistoryOf(vh, domain_id)
        versions == [i \in 1..Len(h) |-> h[i].version]
    IN  SortDesc(versions, << >>)

Register(model) ==
    /\ calls < MaxCalls
    /\ \E r \in {RegisterEffect(models, version_history, model)} :
           /\ models' = r.models
           /\ version_history' = r.version_history
           /\ lastOp' = OpAgain(Op("registry.register", model.metadata.domain_id, None, None,
                                   Some(model), None, << >>, r.raised))
    /\ registered' = registered \cup {<<model.metadata.domain_id, model.metadata.version>>}
    /\ calls' = calls + 1
    /\ UNCHANGED <<now, ticks, cacheVars, facadeVars, taskVars>>

RegistryGet(domain_id, version) ==
    /\ calls < MaxCalls
    /\ calls' = calls + 1
    /\ lastOp' = Op("registry.get", domain_id, version, None, None,
                    RegistryGetEffect(models, version_history, domain_id, version),
                    << >>, "no")
    /\ UNCHANGED <<now, ticks, cacheVars, registryVars, facadeVars, taskVars>>

GetVersions(domain_id) ==
    /\ calls < MaxCalls
    /\ calls' = calls + 1
    /\ lastOp' = Op("registry.get_versions", domain_id, None, None, None, None,
                    get_versions(version_history, domain_id), "no")
    /\ UNCHANGED <<now, ticks, cacheVars, registryVars, facadeVars, taskVars>>

-----------------------------------------------------------------------------
(* validator.py                                                            *)

ValidationIssue(field, message) == [field |-> field, message |-> message, severity |-> "error"]

RequiredFields == <<"domain_id", "domain_name", "description", "version">>

\* ModelValidator._validate_required_fields stopping at the first empty field
_validate_required_fields_first_only(metadata) ==
    LET value(f) == CASE f = "domain_id" -> metadata.domain_id
                      [] f = "domain_name" -> metadata.domain_name
                      [] f = "description" -> metadata.description
                      [] f = "version" -> metadata.version
        missing == SelectSeq(RequiredFields, LAMBDA f : Strip(value(f)) = << >>)
    IN  [i \in 1..(IF missing = << >> THEN 0 ELSE 1) |->
            ValidationIssue(missing[i], "Field is required")]

\* ModelValidator._validate_required_fields
_validate_required_fields(metadata) ==
    LET value(f) == CASE f = "domain_id" -> metadata.domain_id
                      [] f = "domain_name" -> metadata.domain_name
                      [] f = "description" -> metadata.description
                      [] f = "version" -> metadata.version
        missing == SelectSeq(RequiredFields, LAMBDA f : Strip(value(f)) = << >>)
    IN  [i \in 1..Len(missing) |-> ValidationIssue(missing[i], "Field is required")]

\* the whole of s is digits "." digits "." digits
ThreeNumbers(s) ==
    LET parts == Split(s, ".")
    IN  Len(parts) = 3 /\ \A i \in 1..3 : AllDigits(parts[i])

\* VERSION_PATTERN.match: ^\d+\.\d+\.\d+$, where $ also matches before a
\* newline that ends the string
VersionPatternMatches(version) ==
    \/ ThreeNumbers(version)
    \/ /\ version # << >>
       /\ version[Len(version)] = "\n"
       /\ ThreeNumbers(SubSeq(version, 1, Len(version) - 1))

\* ModelValidator._validate_version_format
_validate_version_format(version) ==
    IF ~VersionPatternMatches(version)
    THEN Some(ValidationIssue("version", "Version must follow semantic versioning MAJOR.MINOR.PATCH"))
    ELSE None

\* ModelValidator._validate_version_compatibility; int() of either major
\* raises on a string that is no number
_validate_version_compatibility(version) ==
    LET model_major == Split(version, ".")[1]
        framework_major == Split(framework_version, ".")[1]
    IN  IF ~(IntOk(model_major) /\ IntOk(framework_major))
        THEN [raised |-> TRUE, issue |-> None]
        ELSE IF IntVal(model_major) > IntVal(framework_major)
        THEN [raised |-> FALSE,
              issue |-> Some(ValidationIssue("version", "Domain model requires a newer framework major version"))]
        ELSE [raised |-> FALSE, issue |-> None]

\* ModelValidator.validate
validate(model) ==
    LET required == _validate_required_fields(model.metadata)
        version_format_issue == _validate_version_format(model.metadata.version)
        compatibility == _validate_version_compatibility(model.metadata.version)
        issues == IF ~IsNone(version_format_issue)
                  THEN required \o version_format_issue
                  ELSE required \o compatibility.issue
    IN  IF IsNone(version_format_issue) /\ compatibility.raised
        THEN [raised |-> TRUE, is_valid |-> FALSE, errors |-> required]
        ELSE [raised |-> FALSE, is_valid |-> issues = << >>, errors |-> issues]

\* a call of validate is made with a model
CallValidate(model) ==
    Op("validator.validate.call", model.metadata.domain_id, None, None, Some(model), None,
       << >>, "no")

\* the pending call of validate returns its ValidationResult or raises
Validate ==
    /\ lastOp.op = "validator.validate.call"
    /\ \E r \in {validate(Val(lastOp.model))} :
           lastOp' = IF r.raised
                     THEN Op("validator.validate", lastOp.id, None, None, lastOp.model, None,
                             << >>, "ValueError")
                     ELSE Op("validator.validate", lastOp.id, None, None, lastOp.model,
                             Some([is_valid |-> r.is_valid, errors |-> r.errors]), << >>, "no")
    /\ calls' = calls + 1
    /\ UNCHANGED <<now, ticks, cacheVars, registryVars, facadeVars, taskVars>>

-----------------------------------------------------------------------------
(* loader.py                                                               *)

UpperCase == <<"A", "B", "C", "D", "E", "F", "G", "H", "I", "J", "K", "L", "M",
               "N", "O", "P", "Q", "R", "S", "T", "U", "V", "W", "X", "Y", "Z">>
LowerCase == <<"a", "b", "c", "d", "e", "f", "g", "h", "i", "j", "k", "l", "m",
               "n", "o", "p", "q", "r", "s", "t", "u", "v", "w", "x", "y", "z">>

LowerChar(c) ==
    IF \E i \in 1..26 : UpperCase[i] = c
    THEN LowerCase[CHOOSE i \in 1..26 : UpperCase[i] = c]
    ELSE c

\* str.lower()
Lower(s) == [i \in 1..Len(s) |-> LowerChar(s[i])]

\* str.rfind(c) as a 1-based position, 0 when c does not occur
LastIndexOf(s, c) ==
    IF \E i \in 1..Len(s) : s[i] = c
    THEN CHOOSE i \in 1..Len(s) : s[i] = c /\ \A j \in (i + 1)..Len(s) : s[j] # c
    ELSE 0

\* the components of a path as pathlib keeps them: empty components and
\* "." components are dropped
PathParts(path) ==
    SelectSeq(Split(path, "/"), LAMBDA part : part # << >> /\ part # <<".">>)

\* pathlib's Path(path).name: the final component
PathName(path) ==
    LET parts == PathParts(path)
    IN  IF parts = << >> THEN << >> ELSE parts[Len(parts)]

\* pathlib's Path(path).suffix: from the last dot of the final component,
\* unless that dot starts or ends the component
PathSuffix(path) ==
    LET name == PathName(path)
        i == LastIndexOf(name, ".")
    IN  IF 1 < i /\ i < Len(name) THEN SubSeq(name, i, Len(name)) ELSE << >>

\* ModelLoader.detect_format without the lower()
detect_format_case_sensitive(file_path) ==
    LET suffix == PathSuffix(file_path)
    IN  IF suffix \in {<<".", "t", "t", "l">>, <<".", "t", "u", "r", "t", "l", "e">>}
        THEN Some(TURTLE)
        ELSE IF suffix = <<".", "j", "s", "o", "n">>
        THEN Some(JSON)
        ELSE IF suffix \in {<<".", "m", "d">>, <<".", "m", "a", "r", "k", "d", "o", "w", "n">>,
                            <<".", "m", "k", "d">>}
        THEN Some(MARKDOWN)
        ELSE None

\* ModelLoader.detect_format: the format, or None where it raises ValueError
detect_format(file_path) ==
    LET suffix == Lower(PathSuffix(file_path))
    IN  IF suffix \in {<<".", "t", "t", "l">>, <<".", "t", "u", "r", "t", "l", "e">>}
        THEN Some(TURTLE)
        ELSE IF suffix = <<".", "j", "s", "o", "n">>
        THEN Some(JSON)
        ELSE IF suffix \in {<<".", "m", "d">>, <<".", "m", "a", "r", "k", "d", "o", "w", "n">>,
                            <<".", "m", "k", "d">>}
        THEN Some(MARKDOWN)
        ELSE None

\* the ValueError detect_format raises
detect_format_error(file_path) ==
    Error("ValueError", "Unsupported domain model format for file: {file_path}", file_path,
          << >>, None)

\* a call of detect_format is made with a path
CallDetectFormat(file_path) == Op("loader.detect_format.call", file_path, None, None, None, None, << >>, "no")

\* the pending call of detect_format returns or raises
DetectFormat ==
    /\ lastOp.op = "loader.detect_format.call"
    /\ \E fmt \in {detect_format(lastOp.id)} :
           lastOp' = IF IsNone(fmt)
                     THEN OpOnFile(Op("loader.detect_format", lastOp.id, None, None, None, None,
                                      << >>, "ValueError"),
                                   NoFile, detect_format_error(lastOp.id))
                     ELSE Op("loader.detect_format", lastOp.id, None, None, None, fmt,
                             << >>, "no")
    /\ calls' = calls + 1
    /\ UNCHANGED <<now, ticks, cacheVars, registryVars, facadeVars, taskVars>>

\* ModelLoader.resolve_path: the candidate path (symbolic links and ".."
\* components do not occur in the paths of this model)
resolve_path(file_path) ==
    IF file_path # << >> /\ Head(file_path) = "/" THEN file_path ELSE BaseDir \o file_path

\* the FileNotFoundError resolve_path raises
resolve_path_error(file_path) ==
    Error("FileNotFoundError", "Domain model file not found: {candidate}",
          resolve_path(file_path), << >>, None)

\* the exception aiofiles.open or handle.read() raises on what cannot be
\* opened or decoded (OSError and UnicodeDecodeError are one kind here)
read_error(file_path) == Error("OSError", "", resolve_path(file_path), << >>, None)

\* ModelLoader.load_file on what the file system holds at the path:
\* resolve_path, then detect_format on the resolved name, then the read
load_file(file) ==
    LET name == PathName(resolve_path(file.name))
        fmt == detect_format(name)
    IN  IF ~file.exists
        THEN [raised |-> "FileNotFoundError", content |-> file.doc, fmt |-> None,
              error |-> resolve_path_error(file.name)]
        ELSE IF IsNone(fmt)
        THEN [raised |-> "ValueError", content |-> file.doc, fmt |-> None,
              error |-> detect_format_error(name)]
        ELSE IF ~file.readable
        THEN [raised |-> "OSError", content |-> file.doc, fmt |-> None,
              error |-> read_error(file.name)]
        ELSE [raised |-> "no", content |-> file.doc, fmt |-> fmt, error |-> NoError]

-----------------------------------------------------------------------------
(* parser.py                                                               *)

ListKeys == <<"capabilities", "tools", "rule_sets", "expertise_keywords">>

\* position of a character in the order of its code point
Ord(c) ==
    IF \E i \in 1..26 : UpperCase[i] = c THEN CHOOSE i \in 1..26 : UpperCase[i] = c
    ELSE IF \E i \in 1..26 : LowerCase[i] = c THEN 26 + (CHOOSE i \in 1..26 : LowerCase[i] = c)
    ELSE 0

\* str < str
StrLess(l, r) == TupleLess([i \in 1..Len(l) |-> Ord(l[i])], [i \in 1..Len(r) |-> Ord(r[i])])

RECURSIVE InsertAsc(_, _)
InsertAsc(sorted, str) ==
    IF sorted = << >> THEN <<str>>
    ELSE IF StrLess(str, Head(sorted)) THEN <<str>> \o sorted
    ELSE <<Head(sorted)>> \o InsertAsc(Tail(sorted), str)

\* sorted(...) of a sequence of strings
RECURSIVE Sorted(_)
Sorted(strs) == IF strs = << >> THEN << >> ELSE InsertAsc(Sorted(Tail(strs)), Head(strs))

\* dict.get(key, default)
GetOr(d, key, default) == IF key \in DOMAIN d THEN d[key] ELSE default

\* A graph after graph.parse, as _parse_turtle looks at it: the subject
\* typed DomainModel, if there is one, and under each predicate the objects
\* of that subject in the order graph.objects yields them.  A node is a
\* URIRef or a blank node; str() of an object is its text.
Node(uri, text) == [uri |-> uri, text |-> text]

Graph(subject, objects) == [subject |-> subject, objects |-> objects]

\* list(graph.objects(model_subject, pred))
Objects(graph, pred) == GetOr(graph.objects, pred, << >>)

\* first_literal looking at the secondary predicate first
first_literal_secondary_first(graph, pred_caa, pred_alt) ==
    IF Objects(graph, pred_alt) # << >> THEN Some(Objects(graph, pred_alt)[1])
    ELSE IF Objects(graph, pred_caa) # << >> THEN Some(Objects(graph, pred_caa)[1])
    ELSE None

\* first_literal: the first object graph.objects yields for pred_caa, else
\* for pred_alt, else None (where required, the caller's call raises)
first_literal(graph, pred_caa, pred_alt) ==
    IF Objects(graph, pred_caa) # << >> THEN Some(Objects(graph, pred_caa)[1])
    ELSE IF Objects(graph, pred_alt) # << >> THEN Some(Objects(graph, pred_alt)[1])
    ELSE None

\* all_literals adding the objects of the secondary predicate to those of
\* the primary
all_literals_both(graph, pred_caa, pred_alt) ==
    Sorted(Objects(graph, pred_caa) \o Objects(graph, pred_alt))

\* all_literals
all_literals(graph, pred_caa, pred_alt) ==
    Sorted(IF Objects(graph, pred_caa) # << >> THEN Objects(graph, pred_caa)
           ELSE Objects(graph, pred_alt))

UnknownDomain == <<"u", "n", "k", "n", "o", "w", "n", "_", "d", "o", "m", "a", "i", "n">>

\* seq[-1]
Last(seq) == seq[Len(seq)]

\* str(model_subject).split("#")[-1].split("/")[-1]
LocalName(text) == Last(Split(Last(Split(text, "#")), "/"))

\* the domain_id of _parse_turtle: the explicit one unless it is missing or
\* empty, else derived from the subject
TurtleDomainId(graph) ==
    LET domain_id == first_literal(graph, "caa:domainId", "domain:domainId")
    IN  IF ~IsNone(domain_id) /\ Val(domain_id) # << >> THEN Val(domain_id)
        ELSE IF Val(graph.subject).uri THEN LocalName(Val(graph.subject).text)
        ELSE UnknownDomain

\* the predicates of the three required values, in the order _parse_turtle
\* asks for them
RequiredPredicates ==
    <<[key |-> "domain_name", caa |-> "rdfs:label", alt |-> "domain:domainName"],
      [key |-> "description", caa |-> "rdfs:comment", alt |-> "domain:description"],
      [key |-> "version", caa |-> "caa:version", alt |-> "domain:version"]>>

\* the metadata_dict of _parse_turtle for a graph with a model subject; a
\* required value no predicate supplies is None here
TurtleMetadataDictOf(graph) ==
    [domain_id |-> Some(TurtleDomainId(graph)),
     domain_name |-> first_literal(graph, "rdfs:label", "domain:domainName"),
     description |-> first_literal(graph, "rdfs:comment", "domain:description"),
     version |-> first_literal(graph, "caa:version", "domain:version"),
     capabilities |-> all_literals(graph, "caa:capability", "domain:capability"),
     tools |-> all_literals(graph, "caa:usesTool", "domain:tool"),
     rule_sets |-> all_literals(graph, "caa:appliesRules", "domain:ruleSet"),
     expertise_keywords |-> all_literals(graph, "caa:expertiseKeyword",
                                         "domain:expertiseKeyword")]

\* the subject of the documents that name their model "m"
SubjectM == Node(TRUE, <<"h", ":", "/", "o", "#", "m">>)

\* the objects a document holds under a key, as the objects of a predicate
ObjectsOf(fields, key, pred) ==
    IF key \notin DOMAIN fields THEN EmptyDict
    ELSE IF \E i \in 1..Len(RequiredFields) : RequiredFields[i] = key
    THEN IF IsNone(fields[key]) THEN EmptyDict ELSE [p \in {pred} |-> <<Val(fields[key])>>]
    ELSE [p \in {pred} |-> fields[key]]

\* the graph graph.parse builds from a document: its fields are statements
\* about one subject, in the primary namespace
TurtleGraph(content) ==
    Graph(Some(GetOr(content, "subject", SubjectM)),
          ObjectsOf(content.fields, "domain_id", "caa:domainId")
              @@ ObjectsOf(content.fields, "domain_name", "rdfs:label")
              @@ ObjectsOf(content.fields, "description", "rdfs:comment")
              @@ ObjectsOf(content.fields, "version", "caa:version")
              @@ ObjectsOf(content.fields, "capabilities", "caa:capability")
              @@ ObjectsOf(content.fields, "tools", "caa:usesTool")
              @@ ObjectsOf(content.fields, "rule_sets", "caa:appliesRules")
              @@ ObjectsOf(content.fields, "expertise_keywords", "caa:expertiseKeyword"))

\* the metadata_dict _parse_turtle builds for a document: first_literal for
\* the required fields and all_literals, which sorts, for the four lists;
\* nothing else enters the dict
TurtleMetadataDict(content) == TurtleMetadataDictOf(TurtleGraph(content))

\* the eight keys of the top level of a record
TopLevelMetadataDict(data) ==
    [domain_id |-> GetOr(data, "domain_id", None),
     domain_name |-> GetOr(data, "domain_name", None),
     description |-> GetOr(data, "description", None),
     version |-> GetOr(data, "version", None),
     capabilities |-> GetOr(data, "capabilities", << >>),
     tools |-> GetOr(data, "tools", << >>),
     rule_sets |-> GetOr(data, "rule_sets", << >>),
     expertise_keywords |-> GetOr(data, "expertise_keywords", << >>)]

\* _parse_json taking the top level only when all four required keys are
\* in the record
JsonMetadataDictOf_all_keys(data) ==
    IF \A k \in 1..Len(RequiredFields) : RequiredFields[k] \in DOMAIN data
    THEN TopLevelMetadataDict(data)
    ELSE GetOr(data, "metadata", EmptyDict)

\* _parse_json on data, the record json.loads returned: the eight keys
\* taken from the top level when one of the required keys is in the record
\* (a key whose value is null is in the record), else a copy of the record
\* under "metadata"
JsonMetadataDictOf(data) ==
    IF \E k \in 1..Len(RequiredFields) : RequiredFields[k] \in DOMAIN data
    THEN TopLevelMetadataDict(data)
    ELSE GetOr(data, "metadata", EmptyDict)

\* the record json.loads returns for a document: the keys the document
\* holds at its top level
JsonData(content) ==
    LET data == content.fields
        held == {k \in DOMAIN data :
                    (\E i \in 1..Len(RequiredFields) : RequiredFields[i] = k) => ~IsNone(data[k])}
        top == [k \in held |-> data[k]]
    IN  IF "metadata" \in DOMAIN content THEN top @@ [metadata |-> content.metadata] ELSE top

\* the metadata_dict _parse_json hands to _build_metadata for a document
JsonMetadataDict(content) == JsonMetadataDictOf(JsonData(content))

\* the metadata_dict a parser hands to _build_metadata; _parse_markdown
\* hands over the front matter as it is
MetadataDict(content, fmt) ==
    IF fmt = TURTLE THEN TurtleMetadataDict(content)
    ELSE IF fmt = JSON THEN JsonMetadataDict(content)
    ELSE content.fields

\* ModelParser._build_metadata keeping a format the dict already has
_build_metadata_keeps_declared_format(metadata_dict, fmt) ==
    IF \E k \in 1..Len(RequiredFields) : IsNone(GetOr(metadata_dict, RequiredFields[k], None))
    THEN None
    ELSE Some([domain_id |-> Val(metadata_dict.domain_id),
               domain_name |-> Val(metadata_dict.domain_name),
               description |-> Val(metadata_dict.description),
               version |-> Val(metadata_dict.version),
               format |-> GetOr(metadata_dict, "format", fmt),
               capabilities |-> GetOr(metadata_dict, "capabilities", << >>),
               tools |-> GetOr(metadata_dict, "tools", << >>),
               rule_sets |-> GetOr(metadata_dict, "rule_sets", << >>),
               expertise_keywords |-> GetOr(metadata_dict, "expertise_keywords", << >>)])

\* ModelParser._build_metadata: the four lists default to empty, format is
\* stamped from the argument over whatever the dict holds, and pydantic
\* rejects a dict in which a required field is missing or no string
_build_metadata(metadata_dict, fmt) ==
    IF \E k \in 1..Len(RequiredFields) : IsNone(GetOr(metadata_dict, RequiredFields[k], None))
    THEN None
    ELSE Some([domain_id |-> Val(metadata_dict.domain_id),
               domain_name |-> Val(metadata_dict.domain_name),
               description |-> Val(metadata_dict.description),
               version |-> Val(metadata_dict.version),
               format |-> fmt,
               capabilities |-> GetOr(metadata_dict, "capabilities", << >>),
               tools |-> GetOr(metadata_dict, "tools", << >>),
               rule_sets |-> GetOr(metadata_dict, "rule_sets", << >>),
               expertise_keywords |-> GetOr(metadata_dict, "expertise_keywords", << >>)])

\* the exception a parser raises on a document it does not accept; the
\* exception classes of the three parsers are one kind here
parse_error == Error("ParseError", "", << >>, << >>, None)

\* ModelParser.parse: the new DomainModel, or None where parsing raises
parse(content, fmt, obj) ==
    IF ~content.wellformed THEN None
    ELSE LET metadata == _build_metadata(MetadataDict(content, fmt), fmt)
         IN  IF IsNone(metadata) THEN None
             ELSE Some([metadata |-> Val(metadata), obj |-> obj])

\* ModelParser._parse_turtle after graph.parse: the metadata, or raised
\* with the predicate the message names
_parse_turtle(graph) ==
    LET metadata_dict == TurtleMetadataDictOf(graph)
        missing == {i \in 1..Len(RequiredPredicates) :
                       IsNone(metadata_dict[RequiredPredicates[i].key])}
        metadata == _build_metadata(metadata_dict, TURTLE)
    IN  IF IsNone(graph.subject)
        THEN [raised |-> "ValueError", names |-> "DomainModel subject", metadata |-> EmptyDict]
        ELSE IF missing # {}
        THEN [raised |-> "ValueError",
              names |-> RequiredPredicates[CHOOSE i \in missing : \A j \in missing : i <= j].caa,
              metadata |-> EmptyDict]
        ELSE [raised |-> "no", names |-> "", metadata |-> Val(metadata)]

\* str.startswith
StartsWith(s, prefix) == Len(s) >= Len(prefix) /\ SubSeq(s, 1, Len(prefix)) = prefix

\* 1 + str.find(sub): the position of the first occurrence, 0 when none
IndexOf(s, sub) ==
    LET at == {i \in 1..(Len(s) - Len(sub) + 1) : SubSeq(s, i, i + Len(sub) - 1) = sub}
    IN  IF at = {} THEN 0 ELSE CHOOSE i \in at : \A j \in at : i <= j

\* str.split(sep, maxsplit)
RECURSIVE SplitMax(_, _, _)
SplitMax(s, sep, maxsplit) ==
    IF maxsplit = 0 \/ IndexOf(s, sep) = 0 THEN <<s>>
    ELSE <<SubSeq(s, 1, IndexOf(s, sep) - 1)>>
            \o SplitMax(SubSeq(s, IndexOf(s, sep) + Len(sep), Len(s)), sep, maxsplit - 1)

\* the lines of a document that are not blank
YamlLines(raw) == SelectSeq(Split(raw, "\n"), LAMBDA line : Strip(line) # << >>)

\* a line "key: value": the key is what stands before the first ':' that
\* ends the line or is followed by a space
YamlColon(line) ==
    LET at == {i \in 1..Len(line) : line[i] = ":" /\ (i = Len(line) \/ line[i + 1] = " ")}
    IN  IF at = {} THEN 0 ELSE CHOOSE i \in at : \A j \in at : i <= j

YamlKey(line) == SubSeq(line, 1, YamlColon(line) - 1)

YamlValue(line) == Strip(SubSeq(line, YamlColon(line) + 1, Len(line)))

\* a mapping built line by line; a key given again replaces the value
RECURSIVE YamlMapping(_, _)
YamlMapping(lines, acc) ==
    IF lines = << >> THEN acc
    ELSE YamlMapping(Tail(lines),
                     DictSet(acc, YamlKey(Head(lines))[1], Some(YamlValue(Head(lines)))))

\* yaml.safe_load on the documents of this model (block mappings of plain
\* scalars without indentation, and what breaks them): None for a document
\* without content, a dict for key/value lines, a str for one plain scalar
\* line, and YAMLError for a flow sequence left open, for a value that
\* holds another ': ', and for a scalar line among key/value lines
yaml_safe_load(raw) ==
    LET lines == YamlLines(raw)
        entries == {i \in 1..Len(lines) : YamlColon(lines[i]) # 0}
    IN  IF \E i \in 1..Len(raw) : raw[i] = "["
        THEN [kind |-> "YAMLError", value |-> EmptyDict]
        ELSE IF \E i \in entries : Len(YamlKey(lines[i])) # 1 \/ YamlColon(YamlValue(lines[i])) # 0
        THEN [kind |-> "YAMLError", value |-> EmptyDict]
        ELSE IF lines = << >>
        THEN [kind |-> "None", value |-> EmptyDict]
        ELSE IF entries = {}
        THEN [kind |-> "str", value |-> Strip(raw)]
        ELSE IF entries # 1..Len(lines)
        THEN [kind |-> "YAMLError", value |-> EmptyDict]
        ELSE [kind |-> "dict", value |-> YamlMapping(lines, EmptyDict)]

\* the first lines of _parse_markdown: front_matter and body; yaml.safe_load
\* raises out of them, and a str it returns is kept as front_matter
FrontMatterStep(content) ==
    LET segments == SplitMax(content, Marker, 2)
        loaded == yaml_safe_load(segments[2])
    IN  IF ~StartsWith(content, Marker) \/ Len(segments) < 3
        THEN [raised |-> "no", kind |-> "dict", front_matter |-> EmptyDict, body |-> content]
        ELSE IF loaded.kind = "YAMLError"
        THEN [raised |-> "YAMLError", kind |-> "none", front_matter |-> EmptyDict,
              body |-> content]
        ELSE IF loaded.kind = "None"
        THEN [raised |-> "no", kind |-> "dict", front_matter |-> EmptyDict,
              body |-> segments[3]]
        ELSE [raised |-> "no", kind |-> loaded.kind, front_matter |-> loaded.value,
              body |-> segments[3]]

\* ModelParser._parse_markdown: the trimmed body and the metadata, or raised
\* where the front matter step raises, where {**metadata_dict} is given a
\* str, and where _build_metadata raises
_parse_markdown(content) ==
    LET step == FrontMatterStep(content)
        metadata == _build_metadata(step.front_matter, MARKDOWN)
    IN  IF step.raised # "no"
        THEN [raised |-> step.raised, content |-> << >>, metadata |-> EmptyDict, step |-> step]
        ELSE IF step.kind # "dict"
        THEN [raised |-> "TypeError", content |-> << >>, metadata |-> EmptyDict, step |-> step]
        ELSE IF IsNone(metadata)
        THEN [raised |-> "ValidationError", content |-> << >>, metadata |-> EmptyDict,
              step |-> step]
        ELSE [raised |-> "no", content |-> Strip(step.body), metadata |-> Val(metadata),
              step |-> step]

\* ModelParser._parse_json after json.loads: the content and the metadata
\* it returns, or raised where _build_metadata raises
_parse_json(data) ==
    LET metadata == _build_metadata(JsonMetadataDictOf(data), JSON)
    IN  IF IsNone(metadata)
        THEN [raised |-> TRUE, content |-> EmptyDict, metadata |-> EmptyDict]
        ELSE [raised |-> FALSE, content |-> GetOr(data, "content", EmptyDict),
              metadata |-> Val(metadata)]

\* the record of an operation on parsed data
OpOnData(op, data) == op @@ [data |-> data]

\* a call of _parse_json, as parse makes it, seen after json.loads
CallParseJson(data) ==
    OpOnData(Op("parser._parse_json.call", << >>, None, None, None, None, << >>, "no"), data)

\* the pending call of _parse_json returns (content, metadata) or raises
ParseJson ==
    /\ lastOp.op = "parser._parse_json.call"
    /\ \E r \in {_parse_json(lastOp.data)} :
           lastOp' = IF r.raised
                     THEN OpOnData(Op("parser._parse_json", << >>, None, None, None, None,
                                      << >>, "ParseError"), lastOp.data)
                     ELSE OpOnData(Op("parser._parse_json", << >>, None, None, None,
                                      Some([content |-> r.content, metadata |-> r.metadata]),
                                      << >>, "no"), lastOp.data)
    /\ calls' = calls + 1
    /\ UNCHANGED <<now, ticks, cacheVars, registryVars, facadeVars, taskVars>>

\* a call of _parse_turtle, as parse makes it, seen after graph.parse
CallParseTurtle(graph) ==
    OpOnData(Op("parser._parse_turtle.call", << >>, None, None, None, None, << >>, "no"),
             graph)

\* the pending call of _parse_turtle returns (graph, metadata) or raises;
\* names is what the message of the ValueError names
ParseTurtle ==
    /\ lastOp.op = "parser._parse_turtle.call"
    /\ \E r \in {_parse_turtle(lastOp.data)} :
           lastOp' = [names |-> r.names]
                        @@ OpOnData(Op("parser._parse_turtle", << >>, None, None, None,
                                       IF r.raised = "no"
                                       THEN Some([content |-> lastOp.data,
                                                  metadata |-> r.metadata])
                                       ELSE None,
                                       << >>, r.raised), lastOp.data)
    /\ calls' = calls + 1
    /\ UNCHANGED <<now, ticks, cacheVars, registryVars, facadeVars, taskVars>>

\* a call of _parse_markdown, as parse makes it
CallParseMarkdown(content) ==
    OpOnData(Op("parser._parse_markdown.call", << >>, None, None, None, None, << >>, "no"),
             content)

\* the pending call of _parse_markdown returns (body, metadata) or raises;
\* step is what the front matter step left (history)
ParseMarkdown ==
    /\ lastOp.op = "parser._parse_markdown.call"
    /\ \E r \in {_parse_markdown(lastOp.data)} :
           lastOp' = [step |-> r.step]
                        @@ OpOnData(Op("parser._parse_markdown", << >>, None, None, None,
                                       IF r.raised = "no"
                                       THEN Some([content |-> r.content, metadata |-> r.metadata])
                                       ELSE None,
                                       << >>, r.raised), lastOp.data)
    /\ calls' = calls + 1
    /\ UNCHANGED <<now, ticks, cacheVars, registryVars, facadeVars, taskVars>>

\* a call of parse is made with the content of a file and the format
\* detected from its name, as load_domain_model makes it
CallParse(file) ==
    OpOnFile(Op("parser.parse.call", file.name, None, None, None, None, << >>, "no"),
             file, NoError)

\* the pending call of parse returns a new DomainModel or raises
Parse ==
    /\ lastOp.op = "parser.parse.call"
    /\ \E model \in {parse(lastOp.file.doc, Val(detect_format(lastOp.file.name)), nextObj)} :
           /\ lastOp' = IF IsNone(model)
                         THEN OpOnFile(Op("parser.parse", lastOp.id, None, None, None, None,
                                          << >>, "ParseError"), lastOp.file, parse_error)
                         ELSE OpOnFile(Op("parser.parse", lastOp.id, None, None, None, model,
                                          << >>, "no"), lastOp.file, NoError)
           /\ nextObj' = (IF IsNone(model) THEN nextObj ELSE nextObj + 1)
    /\ calls' = calls + 1
    /\ UNCHANGED <<now, ticks, cacheVars, registryVars, framework_version, manager, metrics, cache_ttl,
                   taskVars>>

-----------------------------------------------------------------------------
(* framework.py                                                            *)

Bump(m, counter) == [m EXCEPT ![counter] = @ + 1]

\* what load_domain_model does to the facade, as a record of the new
\* registry maps, cache, statistics and metrics, and of the outcome
LoadResult(ms, vh, c, st, mt, ret, raised, error) ==
    [models |-> ms, version_history |-> vh, cache |-> c, stats |-> st, metrics |-> mt,
     ret |-> ret, raised |-> raised, error |-> error]

\* the except branch of load_domain_model counting a validation error
ParseFailure_counted_as_validation(file_path, exc) ==
    LoadResult(models, version_history, cache, stats,
               Bump(metrics, "validation_error_count"), None, "parse",
               Error("ValueError", "Failed to parse domain model '{file_path}': {exc}",
                     file_path, << >>, Some(exc)))

\* the except branch of load_domain_model: count, wrap and raise
ParseFailure(file_path, exc) ==
    LoadResult(models, version_history, cache, stats,
               Bump(metrics, "parse_error_count"), None, "parse",
               Error("ValueError", "Failed to parse domain model '{file_path}': {exc}",
                     file_path, << >>, Some(exc)))

\* f"{issue.field}: {issue.message}"
IssueText(issue) == <<issue.field, ": ", issue.message>>

\* "; ".join(...) over the first issue only
JoinIssues_first_only(errors) == IF errors = << >> THEN << >> ELSE IssueText(errors[1])

\* "; ".join(f"{issue.field}: {issue.message}" for issue in validation.errors)
RECURSIVE JoinIssues(_)
JoinIssues(errors) ==
    IF errors = << >> THEN << >>
    ELSE IF Len(errors) = 1 THEN IssueText(errors[1])
    ELSE IssueText(Head(errors)) \o <<"; ">> \o JoinIssues(Tail(errors))

\* the branch of load_domain_model taken when validation.is_valid is false,
\* without its count
ValidationFailure_uncounted(file_path, validation) ==
    LoadResult(models, version_history, cache, stats, metrics, None, "validation",
               Error("ValueError", "Domain model '{file_path}' failed validation: {messages}",
                     file_path, JoinIssues(validation.errors), None))

\* the branch of load_domain_model taken when validation.is_valid is false
ValidationFailure(file_path, validation) ==
    LoadResult(models, version_history, cache, stats,
               Bump(metrics, "validation_error_count"), None, "validation",
               Error("ValueError", "Domain model '{file_path}' failed validation: {messages}",
                     file_path, JoinIssues(validation.errors), None))

\* the exception int() raises on a string that is no number
int_error == Error("ValueError", "invalid literal for int()", << >>, << >>, None)

\* the last lines of load_domain_model without the cache.put
LoadSuccess_uncached(model) ==
    LET reg == RegisterEffect(models, version_history, model)
    IN  IF reg.raised # "no"
        THEN LoadResult(reg.models, reg.version_history, cache, stats, metrics,
                        None, "ValueError", int_error)
        ELSE LoadResult(reg.models, reg.version_history, cache, stats,
                        Bump(metrics, "load_count"), Some(model), "no", NoError)

\* the last lines of load_domain_model: register, put, count, return; an
\* exception of register leaves through the call
LoadSuccess(model) ==
    LET reg == RegisterEffect(models, version_history, model)
        put == CachePutEffect(cache, stats, model.metadata.domain_id, model, None)
    IN  IF reg.raised # "no"
        THEN LoadResult(reg.models, reg.version_history, cache, stats, metrics,
                        None, "ValueError", int_error)
        ELSE LoadResult(reg.models, reg.version_history, put.cache, put.stats,
                        Bump(metrics, "load_count"), Some(model), "no", NoError)

\* DomainModelFramework.load_domain_model without the is_valid test
load_domain_model_unvalidated(file) ==
    LET loaded == load_file(file)
        parsed == IF loaded.raised = "no" THEN parse(loaded.content, Val(loaded.fmt), nextObj)
                  ELSE None
    IN  IF loaded.raised # "no"
        THEN ParseFailure(file.name, loaded.error)
        ELSE IF IsNone(parsed)
        THEN ParseFailure(file.name, parse_error)
        ELSE LoadSuccess(Val(parsed))

\* DomainModelFramework.load_domain_model; an exception that escapes
\* validate or register leaves through the call uncounted
load_domain_model(file) ==
    LET loaded == load_file(file)
        parsed == IF loaded.raised = "no" THEN parse(loaded.content, Val(loaded.fmt), nextObj)
                  ELSE None
    IN  IF loaded.raised # "no"
        THEN ParseFailure(file.name, loaded.error)
        ELSE IF IsNone(parsed)
        THEN ParseFailure(file.name, parse_error)
        ELSE LET model == Val(parsed)
                 validation == validate(model)
             IN  IF validation.raised
                 THEN LoadResult(models, version_history, cache, stats, metrics,
                                 None, "ValueError", int_error)
                 ELSE IF ~validation.is_valid
                 THEN ValidationFailure(file.name, validation)
                 ELSE LoadSuccess(model)

\* DomainModelFramework.get_domain_model returning a cached entry only when
\* it is the current pointer of the registry or its version was asked for
get_domain_model_checks_current(domain_id, version) ==
    LET got == CacheGetEffect(domain_id)
        cached == got.ret
        model == RegistryGetEffect(models, version_history, domain_id, version)
        put == CachePutEffect(got.cache, got.stats, domain_id, Val(model), None)
    IN  IF ~IsNone(cached)
           /\ \/ IsNone(version) /\ cached = DictGet(models, domain_id)
              \/ ~IsNone(version) /\ Val(version) = Val(cached).metadata.version
        THEN [cache |-> got.cache, stats |-> got.stats, ret |-> cached]
        ELSE IF ~IsNone(model)
        THEN [cache |-> put.cache, stats |-> put.stats, ret |-> model]
        ELSE [cache |-> got.cache, stats |-> got.stats, ret |-> None]

\* DomainModelFramework.get_domain_model without the cache.put of the
\* registry fallback
get_domain_model_no_refill(domain_id, version) ==
    LET got == CacheGetEffect(domain_id)
        cached == got.ret
        model == RegistryGetEffect(models, version_history, domain_id, version)
    IN  IF ~IsNone(cached)
           /\ (IsNone(version) \/ Val(version) = Val(cached).metadata.version)
        THEN [cache |-> got.cache, stats |-> got.stats, ret |-> cached]
        ELSE [cache |-> got.cache, stats |-> got.stats, ret |-> model]

\* DomainModelFramework.get_domain_model asking the cache a second time
\* before it falls back to the registry
get_domain_model_second_lookup(domain_id, version) ==
    LET got == CacheGetEffect(domain_id)
        cached == got.ret
        again == [got.stats EXCEPT !.misses = @ + 1]
        model == RegistryGetEffect(models, version_history, domain_id, version)
        put == CachePutEffect(got.cache, again, domain_id, Val(model), None)
    IN  IF ~IsNone(cached)
           /\ (IsNone(version) \/ Val(version) = Val(cached).metadata.version)
        THEN [cache |-> got.cache, stats |-> got.stats, ret |-> cached]
        ELSE IF ~IsNone(model)
        THEN [cache |-> put.cache, stats |-> put.stats, ret |-> model]
        ELSE [cache |-> got.cache, stats |-> again, ret |-> None]

\* DomainModelFramework.get_domain_model
get_domain_model(domain_id, version) ==
    LET got == CacheGetEffect(domain_id)
        cached == got.ret
        model == RegistryGetEffect(models, version_history, domain_id, version)
        put == CachePutEffect(got.cache, got.stats, domain_id, Val(model), None)
    IN  IF ~IsNone(cached)
           /\ (IsNone(version) \/ Val(version) = Val(cached).metadata.version)
        THEN [cache |-> got.cache, stats |-> got.stats, ret |-> cached]
        ELSE IF ~IsNone(model)
        THEN [cache |-> put.cache, stats |-> put.stats, ret |-> model]
        ELSE [cache |-> got.cache, stats |-> got.stats, ret |-> None]

LoadDomainModel(file) ==
    /\ calls < MaxCalls
    /\ \E r \in {load_domain_model(file)} :
           /\ models' = r.models
           /\ version_history' = r.version_history
           /\ cache' = r.cache
           /\ stats' = r.stats
           /\ metrics' = r.metrics
           /\ registered' = registered \cup
                 {<<r.ret[i].metadata.domain_id, r.ret[i].metadata.version>> : i \in 1..Len(r.ret)}
           /\ lastOp' = OpOnFile(Op("facade.load", file.name, None, None, None, r.ret,
                                    << >>, r.raised), file, r.error)
           \* the parser builds a DomainModel object unless loading or parsing raised
           /\ nextObj' = (IF r.raised = "parse" THEN nextObj ELSE nextObj + 1)
    /\ calls' = calls + 1
    /\ UNCHANGED <<now, ticks, default_ttl, getCalls, framework_version, manager, cache_ttl, taskVars>>

GetDomainModel(domain_id, version) ==
    /\ calls < MaxCalls
    /\ \E r \in {get_domain_model(domain_id, version)} :
           /\ cache' = r.cache
           /\ stats' = r.stats
           /\ lastOp' = OpRepeated(Op("facade.get", domain_id, version, None, None, r.ret,
                                      << >>, "no"))
    /\ getCalls' = getCalls + 1
    /\ calls' = calls + 1
    /\ UNCHANGED <<now, ticks, default_ttl, registryVars, facadeVars, taskVars>>

-----------------------------------------------------------------------------
(* load_domain_model coroutines on one event loop.  A coroutine runs until *)
(* it awaits something that is not ready; the awaits of load_domain_model  *)
(* are those of load_file (loader.py:24-25): entering aiofiles.open,       *)
(* handle.read() and leaving the async with block.  resolve_path and       *)
(* detect_format run before the first of them, and everything from the     *)
(* parse to the return runs after the last without a further await.        *)

Task(pc, file) == [pc |-> pc, file |-> file]

\* what the completion of a load_domain_model call leaves in the history
Completion(task, r) == [task |-> task, ret |-> r.ret, raised |-> r.raised]

\* a load_domain_model coroutine is started and runs to its first await, or
\* to its end where resolve_path or detect_format raises
StartLoad(file) ==
    /\ Len(tasks) < NumTasks
    /\ IF load_file(file).raised \in {"FileNotFoundError", "ValueError"}
       THEN /\ \E r \in {load_domain_model(file)} :
                  /\ metrics' = r.metrics
                  /\ completed' = Append(completed, Completion(Len(tasks) + 1, r))
                  /\ lastOp' = OpOnFile(Op("facade.load", file.name, None, None, None, r.ret,
                                           << >>, r.raised), file, r.error)
            /\ tasks' = Append(tasks, Task("done", file))
            /\ calls' = calls + 1
            /\ UNCHANGED <<now, ticks, cacheVars, registryVars, framework_version, manager,
                           cache_ttl, nextObj>>
       ELSE /\ tasks' = Append(tasks, Task("open", file))
            /\ UNCHANGED <<now, ticks, calls, cacheVars, registryVars, facadeVars,
                           completed, lastOp>>

\* the file is opened, or its content is read, while the coroutine is suspended
AwaitFile(t) ==
    /\ tasks[t].pc \in {"open", "read"}
    /\ tasks[t].file.readable
    /\ tasks' = [tasks EXCEPT ![t].pc = IF @ = "open" THEN "read" ELSE "close"]
    /\ UNCHANGED <<now, ticks, calls, cacheVars, registryVars, facadeVars, completed, lastOp>>

\* the file is closed and the coroutine runs from the return of load_file
\* to its own end; or opening the file raises and the coroutine runs through
\* its except branch to its end
FinishLoad(t) ==
    /\ \/ tasks[t].pc = "close"
       \/ tasks[t].pc = "open" /\ ~tasks[t].file.readable
    /\ \E r \in {load_domain_model(tasks[t].file)} :
           /\ models' = r.models
           /\ version_history' = r.version_history
           /\ cache' = r.cache
           /\ stats' = r.stats
           /\ metrics' = r.metrics
           /\ registered' = registered \cup
                 {<<r.ret[i].metadata.domain_id, r.ret[i].metadata.version>> : i \in 1..Len(r.ret)}
           /\ completed' = Append(completed, Completion(t, r))
           /\ lastOp' = OpOnFile(Op("facade.load", tasks[t].file.name, None, None, None, r.ret,
                                    << >>, r.raised), tasks[t].file, r.error)
           /\ nextObj' = (IF r.raised = "parse" THEN nextObj ELSE nextObj + 1)
    /\ tasks' = [tasks EXCEPT ![t].pc = "done"]
    /\ calls' = calls + 1
    /\ UNCHANGED <<now, ticks, default_ttl, getCalls, framework_version, manager, cache_ttl>>

-----------------------------------------------------------------------------
(* manager.py.  The variables of the framework hold the state of the       *)
(* framework the manager has, or of the one it will build when it has      *)
(* none.  A load_domain_model coroutine is bound to the framework it was   *)
(* created on (fw); a framework the manager has discarded lives on in the  *)
(* coroutines bound to it, and what they do to it is in completed.         *)

\* MCPConfigManager.framework: the manager after the property was read
FrameworkOf(m) ==
    IF IsNone(m._framework)
    THEN [m EXCEPT !._framework = Some(m.built + 1), !.built = m.built + 1]
    ELSE m

\* MCPConfigManager.load keeping the framework it has
ManagerLoadEffect_keeps_framework(m, config) == [m EXCEPT !._config = config]

\* MCPConfigManager.load: on each of its three paths the configuration is
\* replaced and the framework is dropped
ManagerLoadEffect(m, config) == [m EXCEPT !._config = config, !._framework = None]

\* load() runs without an await once it holds the lock, and the lock is
\* never held across one
ManagerLoad(config) ==
    /\ manager.ops < MaxCalls
    /\ \E m \in {ManagerLoadEffect(manager, config)} :
           /\ manager' = [m EXCEPT !.ops = @ + 1]
           /\ IF IsNone(m._framework)
              THEN /\ cache' = EmptyDict
                   /\ stats' = [hits |-> 0, misses |-> 0, size |-> 0]
                   /\ getCalls' = 0
                   /\ models' = EmptyDict
                   /\ version_history' = EmptyDict
                   /\ registered' = {}
                   /\ metrics' = [load_count |-> 0, parse_error_count |-> 0,
                                  validation_error_count |-> 0]
              ELSE UNCHANGED <<cache, stats, getCalls, models, version_history, registered,
                               metrics>>
    /\ lastOp' = OpOnData(Op("manager.load", << >>, None, None, None, None, << >>, "no"),
                          config)
    /\ UNCHANGED <<now, ticks, calls, default_ttl, framework_version, cache_ttl, nextObj,
                   taskVars>>

\* whether the framework a coroutine is bound to is the one the manager has
OnCurrentFramework_always(t) == TRUE

OnCurrentFramework(t) == manager._framework = Some(tasks[t].fw)

\* the completion of a task, if it has completed
CompletionsOf(t) == SelectSeq(completed, LAMBDA c : c.task = t)

Succeeded(t) == CompletionsOf(t) # << >> /\ CompletionsOf(t)[1].raised = "no"

\* the list preload_domain_models would return if gather gave the results
\* in the order the coroutines finished
PreloadedIds_in_completion_order(first, last) ==
    LET done == SelectSeq(completed, LAMBDA c : c.task \in first..last /\ c.raised = "no")
    IN  [i \in 1..Len(done) |-> Val(done[i].ret).metadata.domain_id]

\* the list preload_domain_models returns: gather gives one result per
\* coroutine in the order of its arguments, an exception where one raised,
\* and the loop keeps the domain_id of every result that has metadata
PreloadedIds(first, last) ==
    LET results == [i \in 1..(last - first + 1) |-> CompletionsOf(first + i - 1)[1]]
        loaded == SelectSeq(results, LAMBDA res : res.raised = "no")
    IN  [i \in 1..Len(loaded) |-> Val(loaded[i].ret).metadata.domain_id]

\* preload_domain_models up to its await: it returns [] at once, or the
\* coroutines are created on the manager's framework and handed to gather
PreloadStart ==
    /\ \A cfg \in {manager._config} :
           IF ~cfg.preload \/ cfg.files = << >>
           THEN /\ lastOp' = OpOnData(Op("manager.preload", << >>, None, None, None,
                                         Some(<< >>), << >>, "no"),
                                      [first |-> 1, last |-> 0, config |-> cfg])
                /\ UNCHANGED <<tasks, manager>>
           ELSE /\ Len(tasks) + Len(cfg.files) <= NumTasks
                /\ \E m \in {FrameworkOf(manager)} :
                       /\ tasks' = tasks \o [i \in 1..Len(cfg.files) |->
                                                [fw |-> Val(m._framework)]
                                                    @@ Task("new", cfg.files[i])]
                       /\ manager' = [m EXCEPT !.preloads = Append(@,
                                                   [first |-> Len(tasks) + 1,
                                                    last |-> Len(tasks) + Len(cfg.files),
                                                    config |-> cfg, returned |-> FALSE])]
                /\ lastOp' = OpOnData(Op("manager.preload.call", << >>, None, None, None,
                                         None, << >>, "no"),
                                      [first |-> Len(tasks) + 1,
                                       last |-> Len(tasks) + Len(cfg.files), config |-> cfg])
    /\ UNCHANGED <<now, ticks, calls, cacheVars, registryVars, framework_version, metrics,
                   cache_ttl, nextObj, completed>>

\* what the end of a coroutine leaves outside its framework
TaskEnds(t, r) ==
    /\ completed' = Append(completed, Completion(t, r))
    /\ lastOp' = OpOnFile(Op("facade.load", tasks[t].file.name, None, None, None, r.ret,
                             << >>, r.raised), tasks[t].file, r.error)
    /\ tasks' = [tasks EXCEPT ![t].pc = "done"]
    /\ calls' = calls + 1

\* what the end of a coroutine does to its framework: to the variables
\* when that is the manager's, and to nothing the manager can reach when
\* the manager has discarded it
TaskWrites(t, r) ==
    IF OnCurrentFramework(t)
    THEN /\ models' = r.models
         /\ version_history' = r.version_history
         /\ cache' = r.cache
         /\ stats' = r.stats
         /\ metrics' = r.metrics
         /\ registered' = registered \cup
               {<<r.ret[i].metadata.domain_id, r.ret[i].metadata.version>> : i \in 1..Len(r.ret)}
    ELSE UNCHANGED <<models, version_history, cache, stats, metrics, registered>>

\* the event loop starts the coroutines in the order gather was given
\* them: each runs to its first await, or to its end where resolve_path or
\* detect_format raises
StartTask(t) ==
    /\ tasks[t].pc = "new"
    /\ \A u \in 1..(t - 1) : tasks[u].pc # "new"
    /\ IF load_file(tasks[t].file).raised \in {"FileNotFoundError", "ValueError"}
       THEN \E r \in {load_domain_model(tasks[t].file)} :
                /\ TaskEnds(t, r)
                /\ TaskWrites(t, r)
       ELSE /\ tasks' = [tasks EXCEPT ![t].pc = "open"]
            /\ UNCHANGED <<calls, cache, stats, registryVars, metrics, completed, lastOp>>
    /\ UNCHANGED <<now, ticks, default_ttl, getCalls, framework_version, cache_ttl, nextObj,
                   manager>>

\* the file is closed and the coroutine runs from the return of load_file
\* to its own end, or opening the file raises: as FinishLoad, on the
\* framework the coroutine is bound to
EndTask(t) ==
    /\ \/ tasks[t].pc = "close"
       \/ tasks[t].pc = "open" /\ ~tasks[t].file.readable
    /\ \E r \in {load_domain_model(tasks[t].file)} :
           /\ TaskEnds(t, r)
           /\ TaskWrites(t, r)
           /\ nextObj' = (IF r.raised = "parse" THEN nextObj ELSE nextObj + 1)
    /\ UNCHANGED <<now, ticks, default_ttl, getCalls, framework_version, cache_ttl, manager>>

\* gather has every result and preload_domain_models returns its list
PreloadReturn(p) ==
    /\ ~manager.preloads[p].returned
    /\ \A t \in manager.preloads[p].first..manager.preloads[p].last : tasks[t].pc = "done"
    /\ manager' = [manager EXCEPT !.preloads[p].returned = TRUE]
    /\ lastOp' = OpOnData(Op("manager.preload", << >>, None, None, None,
                             Some(PreloadedIds(manager.preloads[p].first,
                                               manager.preloads[p].last)),
                             << >>, "no"),
                          [first |-> manager.preloads[p].first,
                           last |-> manager.preloads[p].last,
                           config |-> manager.preloads[p].config])
    /\ UNCHANGED <<now, ticks, calls, cacheVars, registryVars, framework_version, metrics,
                   cache_ttl, nextObj, taskVars>>

\* manager.framework.get_domain_model(domain_id)
FrameworkGet(domain_id) ==
    /\ manager.ops < MaxCalls
    /\ manager' = [FrameworkOf(manager) EXCEPT !.ops = @ + 1]
    /\ \E r \in {get_domain_model(domain_id, None)} :
           /\ cache' = r.cache
           /\ stats' = r.stats
           /\ lastOp' = Op("manager.get", domain_id, None, None, None, r.ret, << >>, "no")
    /\ getCalls' = getCalls + 1
    /\ UNCHANGED <<now, ticks, calls, default_ttl, registryVars, framework_version, metrics,
                   cache_ttl, nextObj, taskVars>>

-----------------------------------------------------------------------------
(* load_multiple: one load_file coroutine per path, run by asyncio.gather  *)
(* (loader.py:32-33).  gather wraps the coroutines in tasks in the order   *)
(* of its arguments and the event loop starts them in that order; each     *)
(* then runs as load_file does, suspended at the awaits of lines 24-25.    *)

\* a call of load_multiple with the files at its paths: the coroutines are
\* created and not yet started
CallLoadMultiple ==
    Op("loader.load_multiple.call", << >>, None, None, None, None, << >>, "no")

\* what a load_file coroutine ends with: the tuple it returns or the
\* exception it raises
LoadFileOutcome(file) ==
    LET r == load_file(file)
    IN  [ret |-> IF r.raised = "no"
                 THEN Some(<<r.content, Val(r.fmt), resolve_path(file.name)>>)
                 ELSE None,
         raised |-> r.raised, error |-> r.error]

\* the list gather returns: the results in the order of the completions
ResultsInOrderOfCompletion(ts, compl) == [i \in 1..Len(compl) |-> Val(compl[i].ret)]

\* the list gather returns: the result of each argument at its position
ResultsInOrderOfArguments(ts, compl) ==
    [t \in 1..Len(ts) |->
        Val(compl[CHOOSE i \in 1..Len(compl) : compl[i].task = t].ret)]

\* gather's callback on a finished task cancelling the other tasks when
\* the task raised
GatherOnDone_cancels_rest(op, ts, compl, outcome) ==
    IF op.op # "loader.load_multiple.call"
    THEN [op |-> op, tasks |-> ts]
    ELSE IF outcome.raised # "no"
    THEN [op |-> [Op("loader.load_multiple", << >>, None, None, None, None, << >>,
                     outcome.raised) EXCEPT !.error = outcome.error],
          tasks |-> [t \in 1..Len(ts) |->
                        IF ts[t].pc = "done" THEN ts[t] ELSE [ts[t] EXCEPT !.pc = "cancelled"]]]
    ELSE IF \A t \in 1..Len(ts) : ts[t].pc = "done"
    THEN [op |-> Op("loader.load_multiple", << >>, None, None, None,
                    Some(ResultsInOrderOfArguments(ts, compl)), << >>, "no"),
          tasks |-> ts]
    ELSE [op |-> op, tasks |-> ts]

\* gather's callback on a finished task (return_exceptions is False): the
\* first exception is handed to the caller at once, the other tasks are
\* left running and what they end with later is dropped; when every task
\* has returned the caller gets the list of results
GatherOnDone(op, ts, compl, outcome) ==
    IF op.op # "loader.load_multiple.call"
    THEN [op |-> op, tasks |-> ts]
    ELSE IF outcome.raised # "no"
    THEN [op |-> [Op("loader.load_multiple", << >>, None, None, None, None, << >>,
                     outcome.raised) EXCEPT !.error = outcome.error],
          tasks |-> ts]
    ELSE IF \A t \in 1..Len(ts) : ts[t].pc = "done"
    THEN [op |-> Op("loader.load_multiple", << >>, None, None, None,
                    Some(ResultsInOrderOfArguments(ts, compl)), << >>, "no"),
          tasks |-> ts]
    ELSE [op |-> op, tasks |-> ts]

\* a load_file coroutine ends: its outcome is recorded and gather's
\* callback runs
EndLoadFile(t) ==
    \E outcome \in {LoadFileOutcome(tasks[t].file)} :
        \E compl \in {Append(completed, Completion(t, outcome))} :
            \E g \in {GatherOnDone(lastOp, [tasks EXCEPT ![t].pc = "done"], compl, outcome)} :
                /\ completed' = compl
                /\ lastOp' = g.op
                /\ tasks' = g.tasks

\* the next load_file coroutine is started: resolve_path and detect_format
\* run, and either one raises or the coroutine is suspended opening the file
StartLoadFile(t) ==
    /\ tasks[t].pc = "new"
    /\ \A u \in 1..(t - 1) : tasks[u].pc # "new"
    /\ IF load_file(tasks[t].file).raised \in {"FileNotFoundError", "ValueError"}
       THEN EndLoadFile(t)
       ELSE /\ tasks' = [tasks EXCEPT ![t].pc = "open"]
            /\ UNCHANGED <<completed, lastOp>>
    /\ UNCHANGED <<now, ticks, calls, cacheVars, registryVars, facadeVars>>

\* the file is closed and load_file returns its tuple; or opening the file
\* raises
FinishLoadFile(t) ==
    /\ \/ tasks[t].pc = "close"
       \/ tasks[t].pc = "open" /\ ~tasks[t].file.readable
    /\ EndLoadFile(t)
    /\ UNCHANGED <<now, ticks, calls, cacheVars, registryVars, facadeVars>>

-----------------------------------------------------------------------------
(* A ModelCache used on its own.                                           *)

InitCommon ==
    /\ now = 0
    /\ ticks = 0
    /\ calls = 0
    /\ cache = EmptyDict
    /\ stats = [hits |-> 0, misses |-> 0, size |-> 0]
    /\ getCalls = 0
    /\ models = EmptyDict
    /\ version_history = EmptyDict
    /\ registered = {}
    /\ metrics = [load_count |-> 0, parse_error_count |-> 0, validation_error_count |-> 0]
    /\ nextObj = 1
    /\ tasks = << >>
    /\ completed = << >>
    /\ manager = NoManager
    /\ lastOp = NoOp

CacheInit ==
    /\ InitCommon
    /\ default_ttl \in DefaultTtls
    /\ cache_ttl = None
    /\ framework_version = V_1_0_0

CacheNext ==
    \/ \E d \in Delays : Tick(d)
    \/ \E id \in IdPool : CacheGet(id)
    \/ \E id \in IdPool, m \in CacheModelPool, ttl \in TtlArgs : CachePut(id, m, ttl)
    \/ \E id \in IdPool : CacheInvalidate(id)
    \/ CacheInvalidateAll

SpecCache == CacheInit /\ [][CacheNext]_vars

-----------------------------------------------------------------------------
(* A ModelRegistry used on its own.                                        *)

RegistryInit ==
    /\ InitCommon
    /\ default_ttl = DefaultTtl
    /\ cache_ttl = None
    /\ framework_version = V_1_0_0

RegistryNext ==
    \/ \E m \in RegistryModelPool : Register(m)
    \/ \E id \in IdPool, v \in VersionArgs : RegistryGet(id, v)
    \/ \E id \in IdPool : GetVersions(id)

SpecRegistry == RegistryInit /\ [][RegistryNext]_vars

-----------------------------------------------------------------------------
(* A DomainModelFramework and its callers.                                 *)

\* DomainModelFramework.__init__: ModelCache(default_ttl=cache_ttl or 300)
FacadeInit ==
    /\ InitCommon
    /\ cache_ttl \in CacheTtlArgs
    /\ default_ttl = (IF IsNone(cache_ttl) \/ Val(cache_ttl) = 0
                      THEN FrameworkDefaultTtl ELSE Val(cache_ttl))
    /\ framework_version \in FrameworkVersions

FacadeNext ==
    \/ \E d \in Delays : Tick(d)
    \/ \E f \in FilePool : LoadDomainModel(f)
    \/ \E a \in FacadeGetArgs : GetDomainModel(a[1], a[2])

SpecFacade == FacadeInit /\ [][FacadeNext]_vars

-----------------------------------------------------------------------------
(* ModelLoader.detect_format called on a path.                             *)

DetectInit ==
    /\ now = 0
    /\ ticks = 0
    /\ calls = 0
    /\ default_ttl = DefaultTtl
    /\ cache = EmptyDict
    /\ stats = [hits |-> 0, misses |-> 0, size |-> 0]
    /\ getCalls = 0
    /\ models = EmptyDict
    /\ version_history = EmptyDict
    /\ registered = {}
    /\ framework_version = V_1_0_0
    /\ metrics = [load_count |-> 0, parse_error_count |-> 0, validation_error_count |-> 0]
    /\ cache_ttl = None
    /\ nextObj = 1
    /\ tasks = << >>
    /\ completed = << >>
    /\ manager = NoManager
    /\ lastOp \in {CallDetectFormat(path) : path \in PathPool}

DetectNext == DetectFormat

SpecDetect == DetectInit /\ [][DetectNext]_vars

-----------------------------------------------------------------------------
(* ModelValidator.validate called on a model.                              *)

ValidateInit ==
    /\ now = 0
    /\ ticks = 0
    /\ calls = 0
    /\ default_ttl = DefaultTtl
    /\ cache = EmptyDict
    /\ stats = [hits |-> 0, misses |-> 0, size |-> 0]
    /\ getCalls = 0
    /\ models = EmptyDict
    /\ version_history = EmptyDict
    /\ registered = {}
    /\ framework_version \in ValidatorFrameworkVersions
    /\ metrics = [load_count |-> 0, parse_error_count |-> 0, validation_error_count |-> 0]
    /\ cache_ttl = None
    /\ nextObj = 1
    /\ tasks = << >>
    /\ completed = << >>
    /\ manager = NoManager
    /\ lastOp \in {CallValidate(m) : m \in ValidatorModelPool}

ValidateNext == Validate

SpecValidate == ValidateInit /\ [][ValidateNext]_vars

-----------------------------------------------------------------------------
(* A DomainModelFramework loading documents that declare a format, a       *)
(* file_path and lists of their own.                                       *)

DeclaringInit ==
    /\ InitCommon
    /\ cache_ttl = None
    /\ default_ttl = FrameworkDefaultTtl
    /\ framework_version = V_1_0_0

DeclaringNext == \E f \in DeclaringFilePool : LoadDomainModel(f)

SpecDeclaring == DeclaringInit /\ [][DeclaringNext]_vars

-----------------------------------------------------------------------------
(* ModelParser.parse called on the content of a file.                      *)

ParseInit ==
    /\ now = 0
    /\ ticks = 0
    /\ calls = 0
    /\ default_ttl = DefaultTtl
    /\ cache = EmptyDict
    /\ stats = [hits |-> 0, misses |-> 0, size |-> 0]
    /\ getCalls = 0
    /\ models = EmptyDict
    /\ version_history = EmptyDict
    /\ registered = {}
    /\ framework_version = V_1_0_0
    /\ metrics = [load_count |-> 0, parse_error_count |-> 0, validation_error_count |-> 0]
    /\ cache_ttl = None
    /\ nextObj = 1
    /\ tasks = << >>
    /\ completed = << >>
    /\ manager = NoManager
    /\ lastOp \in {CallParse(f) : f \in ParseFilePool}

ParseNext == Parse

SpecParse == ParseInit /\ [][ParseNext]_vars

-----------------------------------------------------------------------------
(* ModelParser._parse_json called on a record.                             *)

\* a parser on its own: nothing of a framework is in use
ParserInit ==
    /\ now = 0
    /\ ticks = 0
    /\ calls = 0
    /\ default_ttl = DefaultTtl
    /\ cache = EmptyDict
    /\ stats = [hits |-> 0, misses |-> 0, size |-> 0]
    /\ getCalls = 0
    /\ models = EmptyDict
    /\ version_history = EmptyDict
    /\ registered = {}
    /\ framework_version = V_1_0_0
    /\ metrics = [load_count |-> 0, parse_error_count |-> 0, validation_error_count |-> 0]
    /\ cache_ttl = None
    /\ nextObj = 1
    /\ tasks = << >>
    /\ completed = << >>
    /\ manager = NoManager

JsonInit ==
    /\ ParserInit
    /\ lastOp \in {CallParseJson(data) : data \in JsonDataPool}

JsonNext == ParseJson

SpecJson == JsonInit /\ [][JsonNext]_vars

-----------------------------------------------------------------------------
(* ModelParser._parse_turtle called on a graph.                            *)

TurtleInit ==
    /\ ParserInit
    /\ lastOp \in {CallParseTurtle(graph) : graph \in GraphPool}

TurtleNext == ParseTurtle

SpecTurtle == TurtleInit /\ [][TurtleNext]_vars

-----------------------------------------------------------------------------
(* ModelParser._parse_markdown called on a text.                           *)

MarkdownInit ==
    /\ ParserInit
    /\ lastOp \in {CallParseMarkdown(text) : text \in MarkdownTextPool}

MarkdownNext == ParseMarkdown

SpecMarkdown == MarkdownInit /\ [][MarkdownNext]_vars

-----------------------------------------------------------------------------
(* ModelLoader.load_multiple called on a list of paths.                    *)

\* the lists of at most n files
RECURSIVE FileLists(_)
FileLists(n) ==
    IF n = 0 THEN {<< >>}
    ELSE FileLists(n - 1)
            \cup {Append(l, f) : l \in {x \in FileLists(n - 1) : Len(x) = n - 1},
                                 f \in GatherFilePool}

GatherInit ==
    /\ now = 0
    /\ ticks = 0
    /\ calls = 0
    /\ default_ttl = DefaultTtl
    /\ cache = EmptyDict
    /\ stats = [hits |-> 0, misses |-> 0, size |-> 0]
    /\ getCalls = 0
    /\ models = EmptyDict
    /\ version_history = EmptyDict
    /\ registered = {}
    /\ framework_version = V_1_0_0
    /\ metrics = [load_count |-> 0, parse_error_count |-> 0, validation_error_count |-> 0]
    /\ cache_ttl = None
    /\ nextObj = 1
    /\ tasks \in {[t \in 1..Len(files) |-> Task("new", files[t])] :
                    files \in FileLists(NumTasks) \ {<< >>}}
    /\ completed = << >>
    /\ manager = NoManager
    /\ lastOp = CallLoadMultiple

GatherNext ==
    \/ \E t \in 1..Len(tasks) : StartLoadFile(t)
    \/ \E t \in 1..Len(tasks) : AwaitFile(t)
    \/ \E t \in 1..Len(tasks) : FinishLoadFile(t)

SpecGather == GatherInit /\ [][GatherNext]_vars

-----------------------------------------------------------------------------
(* A DomainModelFramework whose cache and registry attributes are also     *)
(* called directly.                                                        *)

PartsInit ==
    /\ InitCommon
    /\ cache_ttl = None
    /\ default_ttl = FrameworkDefaultTtl
    /\ framework_version = V_1_0_0

PartsNext ==
    \/ \E d \in Delays : Tick(d)
    \/ \E id \in IdPool : CacheGet(id)
    \/ \E m \in PartsModelPool : CachePut(m.metadata.domain_id, m, None)
    \/ \E id \in IdPool : CacheInvalidate(id)
    \/ CacheInvalidateAll
    \/ \E m \in PartsModelPool : Register(m)
    \/ \E f \in PartsFilePool : LoadDomainModel(f)
    \/ \E a \in PartsGetArgs : GetDomainModel(a[1], a[2])

SpecParts == PartsInit /\ [][PartsNext]_vars

-----------------------------------------------------------------------------
(* A DomainModelFramework whose load_domain_model is called concurrently,  *)
(* as by asyncio.gather in preload_domain_models.                          *)

ConcurrentInit ==
    /\ InitCommon
    /\ cache_ttl = None
    /\ default_ttl = FrameworkDefaultTtl
    /\ framework_version = V_1_0_0

ConcurrentNext ==
    \/ \E f \in ConcurrentFilePool : StartLoad(f)
    \/ \E t \in 1..Len(tasks) : AwaitFile(t)
    \/ \E t \in 1..Len(tasks) : FinishLoad(t)

SpecConcurrent == ConcurrentInit /\ [][ConcurrentNext]_vars

-----------------------------------------------------------------------------
(* An MCPConfigManager whose load, preload_domain_models and framework     *)
(* are called by requests that run on one event loop.                      *)

ManagerInit ==
    /\ now = 0
    /\ ticks = 0
    /\ calls = 0
    /\ default_ttl = FrameworkDefaultTtl
    /\ cache = EmptyDict
    /\ stats = [hits |-> 0, misses |-> 0, size |-> 0]
    /\ getCalls = 0
    /\ models = EmptyDict
    /\ version_history = EmptyDict
    /\ registered = {}
    /\ framework_version = V_1_0_0
    /\ metrics = [load_count |-> 0, parse_error_count |-> 0, validation_error_count |-> 0]
    /\ cache_ttl = Some(FrameworkDefaultTtl)
    /\ nextObj = 1
    /\ tasks = << >>
    /\ completed = << >>
    /\ manager = NoManager
    /\ lastOp = NoOp

ManagerNext ==
    \/ \E config \in ConfigPool : ManagerLoad(config)
    \/ PreloadStart
    \/ \E t \in 1..Len(tasks) : StartTask(t)
    \/ \E t \in 1..Len(tasks) : AwaitFile(t)
    \/ \E t \in 1..Len(tasks) : EndTask(t)
    \/ \E p \in 1..Len(manager.preloads) : PreloadReturn(p)
    \/ \E id \in IdPool : FrameworkGet(id)

SpecManager == ManagerInit /\ [][ManagerNext]_vars

-----------------------------------------------------------------------------
(* A DomainModelFramework built as the manager builds it, from the cache   *)
(* section of the configuration.                                           *)

\* CacheConfig.default_ttl_seconds: an int, at least 0, 300 when not given
ConfiguredTtls == {0, 1, 2, FrameworkDefaultTtl}

\* DomainModelFramework(base_dir=..., cache_ttl=config.cache.default_ttl_seconds)
ConfiguredInit ==
    /\ InitCommon
    /\ cache_ttl \in {Some(n) : n \in ConfiguredTtls}
    /\ default_ttl = (IF IsNone(cache_ttl) \/ Val(cache_ttl) = 0
                      THEN FrameworkDefaultTtl ELSE Val(cache_ttl))
    /\ framework_version = V_1_0_0

ConfiguredNext ==
    \/ \E d \in Delays : Tick(d)
    \/ \E f \in PartsFilePool : LoadDomainModel(f)
    \/ \E a \in PartsGetArgs : GetDomainModel(a[1], a[2])

SpecConfigured == ConfiguredInit /\ [][ConfiguredNext]_vars

-----------------------------------------------------------------------------
(* Claims about ModelCache.                                                *)

\* C1: after every completed ModelCache operation the reported stats.size
\* equals the number of entries held in the cache map.
C1_SizeEqualsEntries == stats.size = Cardinality(DOMAIN cache)

\* a step that is a completed ModelCache.get(id) directly after a put(id, ...)
GetAfterPut ==
    /\ lastOp.op = "cache.put"
    /\ lastOp'.op = "cache.get"
    /\ lastOp'.id = lastOp.id
    /\ calls' = calls + 1

\* C2: put(id, m, ttl=0) followed, after a non-zero delay, by get(id) returns
\* absent, counts exactly one miss, removes the entry from the map, and the
\* size reported afterwards reflects the removal.
C2_ZeroTtlExpires ==
    [][(GetAfterPut /\ lastOp.ttl = Some(0) /\ now > lastOp.at)
        => /\ lastOp'.ret = None
           /\ stats'.misses = stats.misses + 1
           /\ stats'.hits = stats.hits
           /\ lastOp.id \notin DOMAIN cache'
           /\ stats'.size = Cardinality(DOMAIN cache')]_vars

\* C3: put(id, m) followed immediately by get(id), before the TTL elapses,
\* returns m itself and increases hits by exactly 1 and misses by 0; on a
\* fresh cache this leaves hits = 1 and misses = 0.
C3_PutThenGetHits ==
    [][(GetAfterPut /\ lastOp.ttl = None /\ now <= lastOp.at + default_ttl)
        => /\ lastOp'.ret = lastOp.model
           /\ stats'.hits = stats.hits + 1
           /\ stats'.misses = stats.misses
           /\ (calls = 1 => stats'.hits = 1 /\ stats'.misses = 0)]_vars

\* a fresh cache, one put and one get of the same id that hit
C3_Witness ==
    /\ calls = 2
    /\ lastOp.op = "cache.get"
    /\ lastOp.id \in DOMAIN cache
    /\ lastOp.ret = Some(cache[lastOp.id].model)
    /\ cache[lastOp.id].ttl = default_ttl
    /\ stats.hits = 1
    /\ stats.misses = 0

\* C4: hits + misses equals the number of completed get calls; each get
\* increments exactly one of the two counters by exactly 1 (a hit iff an
\* entry exists with now <= cached_at + ttl, and then the model is returned;
\* a miss otherwise, and then absent is returned); put, invalidate and
\* invalidate_all never change hits or misses.
C4_HitsPlusMisses ==
    [][/\ stats'.hits + stats'.misses = getCalls'
       /\ (getCalls' = getCalls + 1) =>
            LET id == lastOp'.id
                fresh == /\ id \in DOMAIN cache
                         /\ now <= cache[id].cached_at + cache[id].ttl
            IN  IF fresh
                THEN /\ stats'.hits = stats.hits + 1
                     /\ stats'.misses = stats.misses
                     /\ lastOp'.ret = Some(cache[id].model)
                ELSE /\ stats'.misses = stats.misses + 1
                     /\ stats'.hits = stats.hits
                     /\ lastOp'.ret = None
       /\ (getCalls' = getCalls) =>
            (stats'.hits = stats.hits /\ stats'.misses = stats.misses)]_vars

\* a put, a get that hit, and a later get that found the entry expired
C4_Witness ==
    /\ calls = 3
    /\ getCalls = 2
    /\ stats.hits = 1
    /\ stats.misses = 1
    /\ lastOp.op = "cache.get"
    /\ lastOp.ret = None
    /\ cache = EmptyDict
    /\ now > 0

-----------------------------------------------------------------------------
(* Claims about ModelRegistry.                                             *)

\* the numeric comparator as the claims state it: components compared as
\* integers, fewer than three components zero-padded on the right,
\* components beyond the third ignored
NumericKey(v) ==
    LET comps == Split(v, ".")
        comp(i) == IF i <= Len(comps) /\ comps[i] # << >> THEN DecVal(comps[i], 0) ELSE 0
    IN  <<comp(1), comp(2), comp(3)>>

NumericLess(a, b) == TupleLess(NumericKey(a), NumericKey(b))

\* a step that is a completed load_domain_model
IsLoadStep == lastOp'.op = "facade.load" /\ calls' = calls + 1

\* a step that is a completed ModelRegistry.register
IsRegisterStep == lastOp'.op = "registry.register" /\ calls' = calls + 1

\* C5: after any sequence of register calls, for every domain_id the version
\* of the current-pointer model is greater than or equal, under the numeric
\* comparator, to every version registered for that id.
C5_CurrentIsGreatest ==
    \A pair \in registered :
        /\ pair[1] \in DOMAIN models
        /\ ~NumericLess(models[pair[1]].metadata.version, pair[2])

\* 1.0.0, 2.1.0, 1.9.9 registered in that order and 2.1.0 current
C5_Witness ==
    /\ IdA \in DOMAIN version_history
    /\ [i \in 1..Len(version_history[IdA]) |-> version_history[IdA][i].version]
            = <<V_1_0_0, V_2_1_0, V_1_9_9>>
    /\ models[IdA].metadata.version = V_2_1_0

\* C6: when register(m) is called with a version that compares equal to the
\* current pointer's version, the current pointer becomes m; when m's version
\* compares strictly lower, the current pointer is left unchanged.
C6_TiesFavourNewest ==
    [][(IsRegisterStep /\ lastOp'.id \in DOMAIN models) =>
        LET m == Val(lastOp'.model)
            cur == models[lastOp'.id]
        IN  /\ (NumericKey(m.metadata.version) = NumericKey(cur.metadata.version))
                    => models'[lastOp'.id] = m
            /\ NumericLess(m.metadata.version, cur.metadata.version)
                    => models'[lastOp'.id] = cur]_vars

\* the model registered last is current although the history holds another
\* version string that compares equal to its version
C6_Witness ==
    /\ lastOp.op = "registry.register"
    /\ models[lastOp.id] = Val(lastOp.model)
    /\ \E i \in 1..Len(version_history[lastOp.id]) :
          LET e == version_history[lastOp.id][i]
          IN  /\ e.version # Val(lastOp.model).metadata.version
              /\ NumericKey(e.version) = NumericKey(Val(lastOp.model).metadata.version)

\* C7, as claimed: once history[domain_id][version] holds a model, no later
\* register call (including one with the same domain_id and version)
\* replaces or removes that stored model.
C7_HistoryNeverOverwritten ==
    [][\A id \in DOMAIN version_history : \A i \in 1..Len(version_history[id]) :
          HistoryGet(HistoryOf(version_history', id), version_history[id][i].version)
              = Some(version_history[id][i].model)]_vars

\* C7, amended: no register call removes a history key or changes the model
\* stored under a key other than the registered model's own
\* (domain_id, version); the entry under that very key is replaced by the
\* model registered last.
C7_HistoryKeysKept ==
    [][\A id \in DOMAIN version_history : \A i \in 1..Len(version_history[id]) :
          LET e == version_history[id][i]
              after == HistoryGet(HistoryOf(version_history', id), e.version)
          IN  IF /\ IsRegisterStep
                 /\ Val(lastOp'.model).metadata.domain_id = id
                 /\ Val(lastOp'.model).metadata.version = e.version
              THEN after = lastOp'.model
              ELSE after = Some(e.model)]_vars

\* a register call on a key already present, made while the history of the
\* id also holds a later-inserted key
C7_Witness ==
    /\ lastOp.op = "registry.register"
    /\ IdA \in DOMAIN version_history
    /\ Len(version_history[IdA]) = 2
    /\ version_history[IdA][1].model = Val(lastOp.model)
    /\ version_history[IdA][1].model.obj = 2
    /\ calls = 3

\* C8: get_versions(id) returns every version string registered for id
\* exactly once, ordered descending by the numeric comparator; for an
\* unknown id it returns an empty sequence.
C8_VersionsDescending ==
    lastOp.op = "registry.get_versions" =>
        LET r == lastOp.versions
        IN  /\ \A pair \in registered :
                  pair[1] = lastOp.id => Cardinality({i \in 1..Len(r) : r[i] = pair[2]}) = 1
            /\ \A i \in 1..Len(r) : <<lastOp.id, r[i]>> \in registered
            /\ \A i \in 1..Len(r) : \A j \in (i + 1)..Len(r) : ~NumericLess(r[i], r[j])
            /\ (lastOp.id \notin DOMAIN version_history => r = << >>)

\* 1.9.0 registered before 1.10.0, and get_versions lists 1.10.0 first
C8_Witness ==
    /\ lastOp.op = "registry.get_versions"
    /\ lastOp.versions = <<V_1_10_0, V_1_9_0>>
    /\ version_history[lastOp.id][1].version = V_1_9_0

\* C9: get(id, v) with a version argument supplied (any string, including
\* the empty string) returns exactly history[id][v] or absent, and never the
\* current pointer of a different version; get(id) with no version returns
\* the current pointer or absent.
C9_GetByVersionIsExact ==
    lastOp.op = "registry.get" =>
        IF IsNone(lastOp.version)
        THEN lastOp.ret = DictGet(models, lastOp.id)
        ELSE lastOp.ret = HistoryGet(HistoryOf(version_history, lastOp.id), Val(lastOp.version))

-----------------------------------------------------------------------------
(* Claims about DomainModelFramework.                                      *)

\* every model the registry stores, in a history or as a current pointer
RegistryModels ==
    {models[id] : id \in DOMAIN models}
        \cup UNION {{version_history[id][i].model : i \in 1..Len(version_history[id])} :
                     id \in DOMAIN version_history}

\* C10: after any sequence of facade load_domain_model and get_domain_model
\* calls, successful or failing, every model stored in the registry (history
\* or current pointer) is one for which the validator returns is_valid = true
\* against the facade's framework version.
C10_RegistryHoldsValidModels ==
    \A m \in RegistryModels : ~validate(m).raised /\ validate(m).is_valid

\* a load that failed to parse, a load that failed validation and a load
\* that registered its model
C10_Witness ==
    /\ metrics.parse_error_count = 1
    /\ metrics.validation_error_count = 1
    /\ metrics.load_count = 1
    /\ RegistryModels # {}

\* C11: after any sequence of facade operations, every entry held in the
\* cache under key id holds a model m with m.domain_id = id that is identical
\* to the registry's history[id][m.version]; the cache never holds a model
\* that is absent from, or differs from, the registry history.
C11_CacheAgreesWithRegistry ==
    \A id \in DOMAIN cache :
        LET m == cache[id].model
        IN  /\ m.metadata.domain_id = id
            /\ HistoryGet(HistoryOf(version_history, id), m.metadata.version) = Some(m)

\* the same file loaded twice: the second object replaced the first both in
\* the history and in the cache
C11_Witness ==
    /\ metrics.load_count = 2
    /\ IdA \in DOMAIN cache
    /\ cache[IdA].model.obj = 2
    /\ Len(version_history[IdA]) = 1
    /\ version_history[IdA][1].model.obj = 2

\* a file on which load_domain_model fails before validation: the path does
\* not resolve to a file, its extension names no format, it cannot be read,
\* or its parser rejects the document or finds a required field missing
FailsBeforeValidation(f) ==
    \/ ~f.exists
    \/ IsNone(detect_format(f.name))
    \/ ~f.readable
    \/ ~f.doc.wellformed
    \/ \E field \in {f.doc.fields.domain_id, f.doc.fields.domain_name,
                     f.doc.fields.description, f.doc.fields.version} : IsNone(field)

\* the exception that makes load_domain_model fail on such a file
CauseKind(f) ==
    IF ~f.exists THEN "FileNotFoundError"
    ELSE IF IsNone(detect_format(f.name)) THEN "ValueError"
    ELSE IF ~f.readable THEN "OSError"
    ELSE "ParseError"

\* C12: if load_domain_model(path) fails while resolving or reading the file,
\* detecting its format or parsing it, it raises an error that names the
\* original path and the cause, increments parse_error_count by exactly 1,
\* and leaves the registry (history and current pointers), the cache
\* contents, load_count and validation_error_count unchanged.
C12_ParseFailureLeavesNoTrace ==
    [][(IsLoadStep /\ FailsBeforeValidation(lastOp'.file)) =>
        LET f == lastOp'.file
        IN  /\ lastOp'.raised # "no"
          /\ lastOp'.ret = None
          /\ lastOp'.error.file_path = f.name
          /\ ~IsNone(lastOp'.error.cause)
          /\ Val(lastOp'.error.cause).kind = CauseKind(f)
          /\ metrics' = [metrics EXCEPT !.parse_error_count = @ + 1]
          /\ models' = models
          /\ version_history' = version_history
          /\ cache' = cache]_vars

\* a load of a missing file that failed on a facade whose registry and
\* cache already hold a model
C12_Witness ==
    /\ lastOp.op = "facade.load"
    /\ lastOp.raised = "parse"
    /\ Val(lastOp.error.cause).kind = "FileNotFoundError"
    /\ lastOp.error.file_path # Val(lastOp.error.cause).file_path
    /\ metrics = [load_count |-> 1, parse_error_count |-> 1, validation_error_count |-> 0]
    /\ IdA \in DOMAIN cache
    /\ IdA \in DOMAIN models

\* the model the parser builds from a file it accepts
ParsedModel(f) == Val(parse(f.doc, Val(detect_format(f.name)), nextObj))

\* the issues the validator finds in the model parsed from a file: none
\* for a file that fails before validation
FailingIssues(f) ==
    IF FailsBeforeValidation(f) THEN << >>
    ELSE LET validation == validate(ParsedModel(f))
         IN  IF validation.raised THEN << >> ELSE validation.errors

\* the message parts contain field, ": ", message next to each other
HasPair(detail, issue) ==
    \E i \in 1..(Len(detail) - 2) :
        /\ detail[i] = issue.field
        /\ detail[i + 1] = ": "
        /\ detail[i + 2] = issue.message

\* C13: if a parsed model fails validation in load_domain_model, the call
\* raises one error whose message contains a `field: message` pair for every
\* failing issue, increments validation_error_count by exactly 1, and leaves
\* the registry, the cache, load_count and parse_error_count unchanged.
C13_ValidationFailureListsIssues ==
    [][IsLoadStep =>
          \A issues \in {FailingIssues(lastOp'.file)} : issues # << >> =>
              /\ lastOp'.raised # "no"
              /\ lastOp'.ret = None
              /\ lastOp'.error.kind = "ValueError"
              /\ \A i \in 1..Len(issues) : HasPair(lastOp'.error.detail, issues[i])
              /\ metrics' = [metrics EXCEPT !.validation_error_count = @ + 1]
              /\ models' = models
              /\ version_history' = version_history
              /\ cache' = cache
              /\ stats' = stats]_vars

\* a load that failed validation with three issues, made on a facade that
\* already holds a model
C13_Witness ==
    /\ lastOp.op = "facade.load"
    /\ lastOp.raised = "validation"
    /\ lastOp.error.detail =
          <<"domain_name", ": ", "Field is required", "; ",
            "description", ": ", "Field is required", "; ",
            "version", ": ", "Version must follow semantic versioning MAJOR.MINOR.PATCH">>
    /\ metrics = [load_count |-> 1, parse_error_count |-> 0, validation_error_count |-> 1]
    /\ IdA \in DOMAIN cache
    /\ IdA \in DOMAIN models

\* a step that is the first get_domain_model(m.domain_id), made on a facade
\* whose only operation so far is a load_domain_model that returned m
FirstGetAfterFirstLoad ==
    /\ calls = 1
    /\ lastOp.op = "facade.load"
    /\ lastOp.raised = "no"
    /\ calls' = 2
    /\ lastOp'.op = "facade.get"
    /\ lastOp'.id = Val(lastOp.ret).metadata.domain_id
    /\ lastOp'.version = None

\* the state a first load_domain_model that returned m leaves behind
FirstLoadStored ==
    (calls' = 1 /\ lastOp'.op = "facade.load" /\ lastOp'.raised = "no") =>
        LET m == Val(lastOp'.ret)
            id == m.metadata.domain_id
        IN  /\ metrics'.load_count = 1
            /\ HistoryGet(HistoryOf(version_history', id), m.metadata.version) = Some(m)
            /\ id \in DOMAIN cache'
            /\ cache'[id].model = m

\* C14, as claimed: after load_domain_model(path) succeeds and returns m on a
\* newly constructed facade, load_count = 1, the registry holds m at
\* history[m.domain_id][m.version], the cache holds m under m.domain_id, and
\* the first get_domain_model(m.domain_id) returns the identical m and leaves
\* cache hits = 1 and misses = 0.
C14_FirstGetHits ==
    [][/\ FirstLoadStored
       /\ FirstGetAfterFirstLoad =>
            /\ lastOp'.ret = lastOp.ret
            /\ stats'.hits = 1
            /\ stats'.misses = 0]_vars

\* C14, amended: the first get_domain_model(m.domain_id) returns the
\* identical m at any time; made no later than the TTL of the cache after the
\* load it leaves hits = 1 and misses = 0, made later it leaves hits = 0 and
\* misses = 1.
C14_FirstGetHitsWithinTtl ==
    [][/\ FirstLoadStored
       /\ FirstGetAfterFirstLoad =>
            /\ lastOp'.ret = lastOp.ret
            /\ IF now <= lastOp.at + default_ttl
               THEN stats'.hits = 1 /\ stats'.misses = 0
               ELSE stats'.hits = 0 /\ stats'.misses = 1]_vars

\* a first load and a first get that hit at the last second of the TTL
C14_Witness ==
    /\ calls = 2
    /\ metrics.load_count = 1
    /\ lastOp.op = "facade.get"
    /\ lastOp.version = None
    /\ lastOp.id \in DOMAIN cache
    /\ lastOp.ret = Some(cache[lastOp.id].model)
    /\ now = cache[lastOp.id].cached_at + default_ttl
    /\ stats.hits = 1
    /\ stats.misses = 0

\* C15: for every id and every supplied version string v,
\* get_domain_model(id, v) returns either absent or a model whose
\* metadata.version equals v and whose domain_id equals id; it returns absent
\* exactly when the registry history has no entry [id][v]; and whenever it
\* returns a model taken from the registry, that model is placed in the cache
\* under id before returning.
C15_GetByVersionIsExact ==
    (lastOp.op = "facade.get" /\ ~IsNone(lastOp.version)) =>
        LET id == lastOp.id
            v == Val(lastOp.version)
        IN  /\ \A i \in 1..Len(lastOp.ret) :
                  /\ lastOp.ret[i].metadata.version = v
                  /\ lastOp.ret[i].metadata.domain_id = id
                  /\ id \in DOMAIN cache
                  /\ cache[id].model = lastOp.ret[i]
            /\ IsNone(lastOp.ret) <=> IsNone(HistoryGet(HistoryOf(version_history, id), v))

\* C16: get_domain_model(id) with no version returns the unexpired cached
\* entry for id without comparing it to the registry's current pointer, and
\* leaves the entry in place; so a state is reachable through facade
\* operations alone in which get_domain_model(id) returns a model whose
\* version differs from the registry's current version for id.
C16_GetReturnsCachedEntry ==
    [][(/\ lastOp'.op = "facade.get"
        /\ calls' = calls + 1
        /\ IsNone(lastOp'.version)
        /\ lastOp'.id \in DOMAIN cache
        /\ now <= cache[lastOp'.id].cached_at + cache[lastOp'.id].ttl)
        => /\ lastOp'.ret = Some(cache[lastOp'.id].model)
           /\ cache' = cache
           /\ models' = models]_vars

\* 1.9.9 loaded, then 1.0.0 loaded, then get_domain_model(id) returned the
\* 1.0.0 model while the current pointer of the registry is the 1.9.9 model
C16_Witness ==
    /\ lastOp.op = "facade.get"
    /\ IsNone(lastOp.version)
    /\ ~IsNone(lastOp.ret)
    /\ Val(lastOp.ret).metadata.version = V_1_0_0
    /\ models[lastOp.id].metadata.version = V_1_9_9
    /\ cache[lastOp.id].model = Val(lastOp.ret)

-----------------------------------------------------------------------------
(* Claims about concurrent loads.                                          *)

\* the models of the load_domain_model calls that returned, in the order of
\* their completion
LoadedInOrder ==
    LET ok == SelectSeq(completed, LAMBDA c : c.raised = "no")
    IN  [i \in 1..Len(ok) |-> Val(ok[i].ret)]

\* the last model of a sequence that has the given id
RECURSIVE LastOfId(_, _)
LastOfId(ms, id) ==
    IF ms = << >> THEN None
    ELSE IF ms[Len(ms)].metadata.domain_id = id THEN Some(ms[Len(ms)])
    ELSE LastOfId(SubSeq(ms, 1, Len(ms) - 1), id)

\* the register rule applied to a sequence of models in order: a model of
\* the id becomes current unless its version is lower than the current one
RECURSIVE CurrentAfter(_, _, _)
CurrentAfter(ms, cur, id) ==
    IF ms = << >> THEN cur
    ELSE IF Head(ms).metadata.domain_id # id THEN CurrentAfter(Tail(ms), cur, id)
    ELSE IF IsNone(cur) \/ ~NumericLess(Head(ms).metadata.version, Val(cur).metadata.version)
    THEN CurrentAfter(Tail(ms), Some(Head(ms)), id)
    ELSE CurrentAfter(Tail(ms), cur, id)

CountRaised(kind) == Len(SelectSeq(completed, LAMBDA c : c.raised = kind))

\* C17: when several load_domain_model calls run concurrently under
\* cooperative scheduling, each call's register, cache.put and load_count
\* increment run with no step of another load between them: in every state
\* the cache entry of each domain_id is the model of the load of that id that
\* completed last, the current pointer is the result of the register rule
\* applied in completion order, and load_count (and each error counter) is
\* the number of calls that completed that way.
C17_CompletionOrderDecides ==
    /\ \A id \in IdPool :
          /\ IF IsNone(LastOfId(LoadedInOrder, id))
             THEN id \notin DOMAIN cache
             ELSE id \in DOMAIN cache /\ Some(cache[id].model) = LastOfId(LoadedInOrder, id)
          /\ DictGet(models, id) = CurrentAfter(LoadedInOrder, None, id)
    /\ metrics.load_count = Len(LoadedInOrder)
    /\ metrics.parse_error_count = CountRaised("parse")
    /\ metrics.validation_error_count = CountRaised("validation")
    /\ stats.size = Cardinality(DOMAIN cache)

\* every call has completed, and of two loads of one id the one started
\* first completed last, after the other one's file read overtook it
C17_Witness ==
    /\ tasks # << >>
    /\ \A t \in 1..Len(tasks) : tasks[t].pc = "done"
    /\ \E i \in 1..Len(completed) : \E j \in (i + 1)..Len(completed) :
          /\ completed[i].raised = "no"
          /\ completed[j].raised = "no"
          /\ completed[i].task > completed[j].task
          /\ Val(completed[i].ret).metadata.domain_id = Val(completed[j].ret).metadata.domain_id
          /\ NumericLess(Val(completed[j].ret).metadata.version,
                         Val(completed[i].ret).metadata.version)
          /\ cache[IdA].model = Val(completed[j].ret)
          /\ models[IdA] = Val(completed[i].ret)

-----------------------------------------------------------------------------
(* Further claims about ModelRegistry.                                     *)

\* C18: registration is idempotent per exact version key: calling
\* register(m) twice in succession with the same model leaves the registry
\* (history maps and current pointers) in exactly the state reached by
\* calling it once, for any prior registry state.  Stated of every register
\* step that repeats the step before it, and of what a repetition of any
\* register step would do to the state that step has reached.
C18_RegisterIdempotent ==
    [][IsRegisterStep =>
        /\ (lastOp.op = "registry.register" /\ lastOp'.model = lastOp.model)
              => (models' = models /\ version_history' = version_history)
        /\ \A twice \in {RegisterEffect(models', version_history', Val(lastOp'.model))} :
              /\ twice.models = models'
              /\ twice.version_history = version_history']_vars

\* a model registered twice in succession on a registry that already held a
\* higher version of its id
C18_Witness ==
    /\ lastOp.op = "registry.register"
    /\ lastOp.again
    /\ calls = 3
    /\ Len(version_history[lastOp.id]) = 2
    /\ version_history[lastOp.id][2].model = Val(lastOp.model)
    /\ models[lastOp.id] = version_history[lastOp.id][1].model

-----------------------------------------------------------------------------
(* Claims about the cache and the registry of one facade.                  *)

\* the (domain_id, version) keys of a version history
HistoryKeys(vh) == UNION {{<<id, vh[id][i].version>> : i \in 1..Len(vh[id])} : id \in DOMAIN vh}

CacheOps == {"cache.get", "cache.put", "cache.invalidate", "cache.invalidate_all"}

\* C19: cache invalidation (invalidate, invalidate_all) and cache expiry
\* never change the registry: across every operation of the cache, registry
\* and facade the set of (domain_id, version) keys in the registry history
\* only grows, and no operation removes a key or a current pointer.
C19_RegistryOnlyGrows ==
    [][/\ HistoryKeys(version_history) \subseteq HistoryKeys(version_history')
       /\ DOMAIN models \subseteq DOMAIN models'
       /\ (calls' = calls + 1 /\ lastOp'.op \in CacheOps \cup {"facade.get"})
            => (models' = models /\ version_history' = version_history)
       /\ (ticks' # ticks) => (models' = models /\ version_history' = version_history)]_vars

\* a model was loaded and every cache entry was then invalidated: the cache
\* is empty and the registry still holds the model
C19_Witness ==
    /\ lastOp.op = "cache.invalidate_all"
    /\ calls = 2
    /\ metrics.load_count = 1
    /\ cache = EmptyDict
    /\ HistoryKeys(version_history) # {}
    /\ DOMAIN models # {}

-----------------------------------------------------------------------------
(* Claims about ModelLoader.                                               *)

\* the final extension of a path, in lower case and without its dot: what
\* follows the last dot of the final component, provided something
\* precedes that dot; << >> where the final component has no extension
FinalExtension(path) ==
    LET name == PathName(path)
        pieces == Split(name, ".")
        last == pieces[Len(pieces)]
        before == SubSeq(name, 1, Len(name) - Len(last) - 1)
    IN  IF Len(pieces) >= 2 /\ last # << >> /\ before # << >> THEN Lower(last) ELSE << >>

\* C20: detect_format maps a file name to a format using only its final
\* extension, case-insensitively: .ttl/.turtle give the graph format, .json
\* the record format, .md/.markdown/.mkd the prose format, and every other
\* extension (including none) fails with an unsupported-format error naming
\* the path.
C20_FormatFromFinalExtension ==
    lastOp.op = "loader.detect_format" =>
        LET ext == FinalExtension(lastOp.id)
        IN  IF ext \in {<<"t", "t", "l">>, <<"t", "u", "r", "t", "l", "e">>}
            THEN lastOp.raised = "no" /\ lastOp.ret = Some(TURTLE)
            ELSE IF ext = <<"j", "s", "o", "n">>
            THEN lastOp.raised = "no" /\ lastOp.ret = Some(JSON)
            ELSE IF ext \in {<<"m", "d">>, <<"m", "a", "r", "k", "d", "o", "w", "n">>,
                             <<"m", "k", "d">>}
            THEN lastOp.raised = "no" /\ lastOp.ret = Some(MARKDOWN)
            ELSE /\ lastOp.raised = "ValueError"
                 /\ lastOp.ret = None
                 /\ lastOp.error.kind = "ValueError"
                 /\ lastOp.error.text = "Unsupported domain model format for file: {file_path}"
                 /\ lastOp.error.file_path = lastOp.id

\* an upper-case extension that follows another extension, in a directory
\* whose own name ends in a supported extension, was detected
C20_Witness ==
    /\ lastOp.op = "loader.detect_format"
    /\ lastOp.id = <<"d", ".", "t", "t", "l", "/", "m", ".", "J", "s", "o", "n">>
    /\ lastOp.ret = Some(JSON)

-----------------------------------------------------------------------------
(* Claims about ModelValidator.                                            *)

\* a string that is empty after trimming: it holds nothing but white space
OnlySpace(str) == \A i \in 1..Len(str) : IsSpace(str[i])

FieldValue(metadata, f) ==
    CASE f = "domain_id" -> metadata.domain_id
      [] f = "domain_name" -> metadata.domain_name
      [] f = "description" -> metadata.description
      [] f = "version" -> metadata.version

\* the positions of the issues of a result that have a field and a message
IssuesWith(errors, field, message) ==
    {i \in 1..Len(errors) : errors[i].field = field /\ errors[i].message = message}

\* C21: for every model, validate reports one error-severity issue naming
\* field f for each f among domain_id, domain_name, description, version that
\* is empty after trimming (all violations, not only the first), returns
\* every collected issue, and sets is_valid to true exactly when no
\* error-severity issue was collected.
C21_RequiredFieldsAllReported ==
    lastOp.op = "validator.validate" =>
        /\ lastOp.raised = "no"
        /\ \A r \in {Val(lastOp.ret)} :
              /\ \A k \in 1..Len(RequiredFields) :
                    Cardinality(IssuesWith(r.errors, RequiredFields[k], "Field is required"))
                        = IF OnlySpace(FieldValue(Val(lastOp.model).metadata, RequiredFields[k]))
                          THEN 1 ELSE 0
              /\ \A i \in 1..Len(r.errors) :
                    /\ r.errors[i].severity = "error"
                    /\ \E k \in 1..Len(RequiredFields) : r.errors[i].field = RequiredFields[k]
              /\ r.is_valid <=> ~\E i \in 1..Len(r.errors) : r.errors[i].severity = "error"

\* a model with a blank id, a blank name, a tab for a description and an
\* empty version: four required-field issues in the order of the fields
\* and the version-format issue after them
C21_Witness ==
    /\ lastOp.op = "validator.validate"
    /\ lastOp.raised = "no"
    /\ ~Val(lastOp.ret).is_valid
    /\ [i \in 1..Len(Val(lastOp.ret).errors) |-> Val(lastOp.ret).errors[i].field]
          = <<"domain_id", "domain_name", "description", "version", "version">>

\* digits "." digits "." digits, read from left to right: group counts the
\* numbers begun, seen tells whether the current one has a digit
RECURSIVE ShapeFrom(_, _, _)
ShapeFrom(str, group, seen) ==
    IF str = << >> THEN group = 3 /\ seen
    ELSE IF IsDigit(Head(str)) THEN ShapeFrom(Tail(str), group, TRUE)
    ELSE IF Head(str) = "." /\ seen /\ group < 3 THEN ShapeFrom(Tail(str), group + 1, FALSE)
    ELSE FALSE

DigitsDotDigitsDotDigits(str) == ShapeFrom(str, 1, FALSE)

\* the number written by the digits a string begins with
RECURSIVE LeadingNumber(_, _)
LeadingNumber(str, acc) ==
    IF str = << >> \/ ~IsDigit(Head(str)) THEN acc
    ELSE LeadingNumber(Tail(str), 10 * acc + DigitVal(Head(str)))

MajorOf(version) == LeadingNumber(version, 0)

FormatMessage == "Version must follow semantic versioning MAJOR.MINOR.PATCH"
CompatibilityMessage == "Domain model requires a newer framework major version"

\* C22: validate emits a version-format error exactly when the version
\* string is not of the shape digits.digits.digits; the compatibility check
\* runs only when the format check passed and emits an error exactly when
\* the model's major version is strictly greater than the framework's major
\* version (an equal or lesser major never yields a compatibility issue,
\* whatever the minor and patch).
C22_VersionChecks ==
    lastOp.op = "validator.validate" =>
        /\ lastOp.raised = "no"
        /\ \A r \in {Val(lastOp.ret)} : \A v \in {Val(lastOp.model).metadata.version} :
              /\ (IssuesWith(r.errors, "version", FormatMessage) # {})
                    <=> ~DigitsDotDigitsDotDigits(v)
              /\ (IssuesWith(r.errors, "version", CompatibilityMessage) # {})
                    <=> (DigitsDotDigitsDotDigits(v) /\ MajorOf(v) > MajorOf(framework_version))

-----------------------------------------------------------------------------
(* Claims about the metadata of loaded models.                             *)

\* the format a final extension stands for, None for any other
FormatOfExtension(ext) ==
    CASE ext \in {<<"t", "t", "l">>, <<"t", "u", "r", "t", "l", "e">>} -> Some(TURTLE)
      [] ext = <<"j", "s", "o", "n">> -> Some(JSON)
      [] ext \in {<<"m", "d">>, <<"m", "a", "r", "k", "d", "o", "w", "n">>, <<"m", "k", "d">>}
            -> Some(MARKDOWN)
      [] OTHER -> None

\* C23: every model returned by a successful load_domain_model has
\* domain_id, domain_name, description and version non-empty after trimming,
\* and metadata.format equal to the format detected from the source file's
\* extension, whatever format or file_path value the document itself
\* declares.
C23_LoadedMetadataStamped ==
    (lastOp.op = "facade.load" /\ lastOp.raised = "no") =>
        \A m \in {Val(lastOp.ret)} :
            /\ \A k \in 1..Len(RequiredFields) :
                  ~OnlySpace(FieldValue(m.metadata, RequiredFields[k]))
            /\ Some(m.metadata.format) = FormatOfExtension(FinalExtension(lastOp.file.name))

\* a prose document whose front matter declares the graph format was
\* loaded, after a record document that declares the prose format under its
\* "metadata" key: each model carries the format of its file's extension
C23_Witness ==
    /\ lastOp.op = "facade.load"
    /\ lastOp.raised = "no"
    /\ lastOp.file.name = FileMd
    /\ lastOp.file.doc.fields.format = TURTLE
    /\ Val(lastOp.ret).metadata.format = MARKDOWN
    /\ Val(lastOp.ret).metadata.capabilities = <<StrB, StrA>>
    /\ Len(version_history[IdA]) = 2
    /\ version_history[IdA][1].model.metadata.format = JSON

\* the list a metadata record holds under a list key
FieldList(metadata, key) ==
    CASE key = "capabilities" -> metadata.capabilities
      [] key = "tools" -> metadata.tools
      [] key = "rule_sets" -> metadata.rule_sets
      [] key = "expertise_keywords" -> metadata.expertise_keywords

\* sorted and without duplicates: each string is less than the next
StrictlyAscending(strs) == \A i \in 1..(Len(strs) - 1) : StrLess(strs[i], strs[i + 1])

\* C30: on every metadata record built by any of the three parsers (graph,
\* record, prose), each of capabilities, tools, rule_sets and
\* expertise_keywords is a sequence of strings that is sorted and contains no
\* duplicates.
C30_ListsSortedDistinct ==
    (lastOp.op = "parser.parse" /\ lastOp.raised = "no") =>
        \A k \in 1..Len(ListKeys) :
            StrictlyAscending(FieldList(Val(lastOp.ret).metadata, ListKeys[k]))

-----------------------------------------------------------------------------
(* Claims about load_file and load_multiple.                               *)

\* a step in which load_file coroutine t ends
EndsIn(t) == tasks[t].pc # "done" /\ tasks'[t].pc = "done"

\* the file name has an extension detect_format knows
SupportedName(file) == ~IsNone(FormatOfExtension(FinalExtension(file.name)))

\* C24: load_file resolves the path first, then detects the format from the
\* resolved file name, and only then reads the file: it fails with
\* not-found whenever the resolved path does not exist as a regular file,
\* and for an existing file with an unsupported extension it fails with
\* unsupported-format without reading the file.
C24_ResolveDetectRead ==
    [][\A t \in 1..Len(tasks) : EndsIn(t) =>
          \A f \in {tasks[t].file} : \A c \in {completed'[Len(completed')]} :
              /\ c.task = t
              /\ ~(f.exists /\ f.regular)
                    => (c.raised = "FileNotFoundError" /\ tasks[t].pc = "new")
              /\ (f.exists /\ f.regular /\ ~SupportedName(f))
                    => (c.raised = "ValueError" /\ tasks[t].pc = "new")
              /\ (c.raised = "no") => tasks[t].pc = "close"]_vars

\* the outcome of load_multiple, once it has one, against the outcomes of
\* its load_file coroutines: the list of all results in the order of the
\* paths, or the exception of the coroutine that raised first
GatherOutcomeOk(op, ts, compl) ==
    LET failed == {i \in 1..Len(compl) : compl[i].raised # "no"}
    IN  /\ (op.op = "loader.load_multiple.call")
              <=> (failed = {} /\ \E t \in 1..Len(ts) : ts[t].pc # "done")
        /\ (op.op = "loader.load_multiple" /\ op.raised = "no") =>
              /\ Len(Val(op.ret)) = Len(ts)
              /\ \A t \in 1..Len(ts) :
                    Val(op.ret)[t] = <<ts[t].file.doc,
                                      Val(FormatOfExtension(FinalExtension(ts[t].file.name))),
                                      BaseDir \o ts[t].file.name>>
        /\ (op.op = "loader.load_multiple" /\ op.raised # "no") =>
              \E i \in failed :
                  /\ \A j \in failed : i <= j
                  /\ op.raised = compl[i].raised
                  /\ op.error.file_path \in {ts[compl[i].task].file.name,
                                             BaseDir \o ts[compl[i].task].file.name}

\* coroutine t of ts is where a step of it can follow: waiting to be
\* started, waiting for a file that can be opened and read, about to fail
\* on one that cannot, or about to return
HasNextStep(ts, t) ==
    \/ ts[t].pc = "new"
    \/ ts[t].pc \in {"open", "read"} /\ ts[t].file.readable
    \/ ts[t].pc = "open" /\ ~ts[t].file.readable
    \/ ts[t].pc = "close"

\* C25: load_multiple(paths) starts a load_file for every path concurrently
\* and, when all succeed, returns the results in the order of the input
\* paths whatever order the reads complete in; when one path fails, the
\* first exception is raised to the caller and the loads of the other paths
\* are neither blocked nor cancelled by it: every step moves one coroutine
\* only, from one point of load_file to the next, and a coroutine that has
\* not ended is at a point from which it has a next step, whatever the
\* others have ended with.
C25_GatherKeepsOrder ==
    [][/\ GatherOutcomeOk(lastOp', tasks', completed')
       /\ \A t \in 1..Len(tasks) :
             /\ tasks'[t].pc \in {"new", "open", "read", "close", "done"}
             /\ tasks'[t].pc # tasks[t].pc
                   => \A u \in 1..Len(tasks) : u # t => tasks'[u] = tasks[u]
             /\ tasks'[t].pc # "done" => HasNextStep(tasks', t)]_vars

\* load_multiple raised the not-found error of its first path at once, and
\* the load of its second path went on to open, read and close its file
\* and returned
C25_Witness ==
    /\ lastOp.op = "loader.load_multiple"
    /\ lastOp.raised = "FileNotFoundError"
    /\ Len(tasks) = 2
    /\ Len(completed) = 2
    /\ completed[1].task = 1
    /\ completed[2].task = 2
    /\ completed[2].raised = "no"
    /\ tasks[2].pc = "done"

-----------------------------------------------------------------------------
(* Claims about the counters of the facade.                                *)

MetricKeys == {"load_count", "parse_error_count", "validation_error_count"}

-----------------------------------------------------------------------------
(* Claims about the two maps of ModelRegistry.                             *)

-----------------------------------------------------------------------------
(* Claims about get_domain_model on a stale cache.                         *)

\* the cache holds no fresh entry for domain_id: none at all (never put,
\* invalidated, or evicted by a get) or one whose time to live has passed
Stale(domain_id) == domain_id \notin DOMAIN cache \/ is_expired(cache[domain_id])

IsFacadeGetStep == calls' = calls + 1 /\ lastOp'.op = "facade.get"

\* C28: if the cache entry for id has expired or been invalidated and the
\* registry has a current model for id, the next get_domain_model(id) with
\* no version returns the registry's current model, counts exactly one miss,
\* and re-inserts that model in the cache so that an immediately following
\* get_domain_model(id) is a hit returning the same model.
C28_StaleEntryRefilled ==
    [][(IsFacadeGetStep /\ IsNone(lastOp'.version)) =>
        /\ (Stale(lastOp'.id) /\ lastOp'.id \in DOMAIN models) =>
              /\ lastOp'.ret = Some(models[lastOp'.id])
              /\ stats'.misses = stats.misses + 1
              /\ stats'.hits = stats.hits
              /\ lastOp'.id \in DOMAIN cache'
              /\ cache'[lastOp'.id] = CacheEntry(models[lastOp'.id], now, default_ttl)
              /\ ~is_expired(cache'[lastOp'.id])
        /\ (lastOp'.again /\ ~IsNone(lastOp.ret)) =>
              /\ lastOp'.ret = lastOp.ret
              /\ stats'.hits = stats.hits + 1
              /\ stats'.misses = stats.misses
              /\ cache' = cache]_vars

\* a model was loaded, its entry expired, one get_domain_model missed and
\* re-inserted it, and the get_domain_model right after was a hit
C28_Witness ==
    /\ calls = 3
    /\ ticks = 1
    /\ metrics.load_count = 1
    /\ lastOp.op = "facade.get"
    /\ IsNone(lastOp.version)
    /\ lastOp.again
    /\ lastOp.id \in DOMAIN models
    /\ lastOp.ret = Some(models[lastOp.id])
    /\ stats.misses = 1
    /\ stats.hits = 1
    /\ cache[lastOp.id].cached_at = now
    /\ now > default_ttl

-----------------------------------------------------------------------------
(* Claims about the time to live the facade is configured with.            *)

\* C29: every cache entry the facade inserts (on a successful load and on
\* registry fallback in get_domain_model) carries the default TTL
\* configured at facade construction, for every configured non-negative
\* value including 0 (with 0 the entry is stale on any later read).
C29_EntriesCarryConfiguredTtl ==
    \A id \in DOMAIN cache :
        /\ cache[id].ttl = Val(cache_ttl)
        /\ (Val(cache_ttl) = 0 /\ now > cache[id].cached_at) => is_expired(cache[id])

-----------------------------------------------------------------------------
(* Claims about what get_domain_model leaves alone.                        *)

\* C36: get_domain_model never modifies the registry, and performs exactly
\* one cache lookup per call (hits + misses grows by exactly 1); when id is
\* unknown to both cache and registry it returns absent and leaves the
\* cache contents and size unchanged.
C36_GetLeavesRegistryAlone ==
    [][IsFacadeGetStep =>
        /\ models' = models
        /\ version_history' = version_history
        /\ stats'.hits + stats'.misses = stats.hits + stats.misses + 1
        /\ (/\ lastOp'.id \notin DOMAIN cache
            /\ lastOp'.id \notin DOMAIN models
            /\ lastOp'.id \notin DOMAIN version_history) =>
              /\ IsNone(lastOp'.ret)
              /\ cache' = cache
              /\ stats'.size = stats.size]_vars

\* get_domain_model was called for an id that neither the cache nor the
\* registry knows, while both hold another id
C36_Witness ==
    /\ lastOp.op = "facade.get"
    /\ IsNone(lastOp.ret)
    /\ lastOp.id \notin DOMAIN cache
    /\ lastOp.id \notin DOMAIN models
    /\ lastOp.id \notin DOMAIN version_history
    /\ DOMAIN cache # {}
    /\ DOMAIN models # {}
    /\ stats.size = 1
    /\ stats.misses = 1
    /\ stats.hits = 0

-----------------------------------------------------------------------------
(* Claims about the record parser.                                         *)

\* whether _build_metadata accepts what a record holds under the required
\* keys: each is there and is a string
HoldsRequired(record) ==
    \A i \in 1..Len(RequiredFields) :
        RequiredFields[i] \in DOMAIN record /\ ~IsNone(record[RequiredFields[i]])

\* the metadata of a returned model agrees with a record on every key
BuiltFrom(metadata, record) ==
    /\ \A i \in 1..Len(RequiredFields) :
          metadata[RequiredFields[i]] = Val(record[RequiredFields[i]])
    /\ \A i \in 1..Len(ListKeys) :
          metadata[ListKeys[i]] = (IF ListKeys[i] \in DOMAIN record THEN record[ListKeys[i]]
                                   ELSE << >>)

\* C33: the record parser builds metadata from the top level of the record
\* when the keys domain_id/domain_name/description/version are present
\* there and from the nested `metadata` sub-record otherwise: the top level
\* is chosen exactly when at least one of the four keys is present at top
\* level (the nested sub-record is then not consulted at all), a record with
\* none of them at top level uses the nested sub-record, and content is the
\* `content` field or an empty record when it is absent.
C33_TopLevelElseNested ==
    lastOp.op = "parser._parse_json" =>
        \A data \in {lastOp.data} :
            \A source \in {IF DOMAIN data \cap {"domain_id", "domain_name", "description",
                                                "version"} # {}
                           THEN data
                           ELSE IF "metadata" \in DOMAIN data THEN data.metadata
                           ELSE EmptyDict} :
                /\ (lastOp.raised = "no") = HoldsRequired(source)
                /\ lastOp.raised = "no" =>
                      /\ BuiltFrom(Val(lastOp.ret).metadata, source)
                      /\ Val(lastOp.ret).metadata.format = JSON
                      /\ Val(lastOp.ret).content = (IF "content" \in DOMAIN data
                                                    THEN data.content ELSE EmptyDict)

\* a record with one required key at its top level, held with null, and a
\* complete sub-record under "metadata": the top level was chosen and the
\* sub-record was not consulted
C33_Witness ==
    /\ lastOp.op = "parser._parse_json"
    /\ DOMAIN lastOp.data = {"domain_id", "metadata"}
    /\ IsNone(lastOp.data.domain_id)
    /\ HoldsRequired(lastOp.data.metadata)
    /\ lastOp.raised = "ParseError"

-----------------------------------------------------------------------------
(* Claims about the prose parser.                                          *)

\* where the second marker of a text begins, 0 when the text does not begin
\* with a marker or holds no second one
SecondMarker(text) ==
    IF ~StartsWith(text, Marker) THEN 0
    ELSE LET at == {i \in 4..(Len(text) - 2) : SubSeq(text, i, i + 2) = Marker}
         IN  IF at = {} THEN 0 ELSE CHOOSE i \in at : \A j \in at : i <= j

\* C32: in the prose parser, text beginning with the three-dash marker and
\* containing a second marker is split at the second marker into front
\* matter and body, and the body is the remaining text trimmed; if the
\* front matter fails to parse as a key/value document, or no front matter
\* is present, the front-matter map is empty and the front-matter step
\* itself raises no error.
C32_FrontMatterSplit ==
    lastOp.op = "parser._parse_markdown" =>
        \A text \in {lastOp.data} : \A second \in {SecondMarker(lastOp.data)} :
            /\ lastOp.step.raised = "no"
            /\ second = 0 => lastOp.step.front_matter = EmptyDict
            /\ (second # 0 /\ yaml_safe_load(SubSeq(text, 4, second - 1)).kind # "dict")
                  => lastOp.step.front_matter = EmptyDict
            /\ lastOp.raised = "no" =>
                  Val(lastOp.ret).content =
                      Strip(IF second = 0 THEN text ELSE SubSeq(text, second + 3, Len(text)))

-----------------------------------------------------------------------------
(* Claims about the graph parser.                                          *)

\* what follows the last '#' or '/' of a text
TrailingSegment(text) ==
    LET at == {i \in 1..Len(text) : text[i] \in {"#", "/"}}
    IN  IF at = {} THEN text
        ELSE SubSeq(text, (CHOOSE i \in at : \A j \in at : j <= i) + 1, Len(text))

\* the graph states no id for its subject, in either namespace
NoExplicitId(graph) ==
    /\ "caa:domainId" \notin DOMAIN graph.objects
    /\ "domain:domainId" \notin DOMAIN graph.objects

\* C31: in the graph parser, when the DomainModel subject has no explicit
\* id predicate in either namespace, domain_id is the subject's local name
\* (the trailing segment after `#` or `/`), and whenever the subject has no
\* derivable local name (a blank node, or an identifier ending in `#` or
\* `/`) domain_id is the fixed placeholder string; the derived domain_id is
\* therefore never empty.
C31_DerivedIdNeverEmpty ==
    (lastOp.op = "parser._parse_turtle" /\ lastOp.raised = "no" /\ NoExplicitId(lastOp.data)) =>
        \A subject \in {Val(lastOp.data.subject)} :
            \A domain_id \in {Val(lastOp.ret).metadata.domain_id} :
                /\ (subject.uri /\ TrailingSegment(subject.text) # << >>)
                      => domain_id = TrailingSegment(subject.text)
                /\ (~subject.uri \/ TrailingSegment(subject.text) = << >>)
                      => domain_id = UnknownDomain
                /\ domain_id # << >>

\* the elements of a sequence
Range(seq) == {seq[i] : i \in 1..Len(seq)}

\* C34: for domain_name, description and version the graph parser returns
\* the primary-namespace predicate's value whenever one exists (a secondary
\* value is never used in that case), otherwise the secondary-namespace
\* predicate's value, and raises a descriptive error naming the missing
\* predicate when neither namespace supplies a value.
C34_PrimaryThenSecondary ==
    (lastOp.op = "parser._parse_turtle" /\ ~IsNone(lastOp.data.subject)) =>
        \A unsupplied \in {{i \in 1..Len(RequiredPredicates) :
                               /\ Objects(lastOp.data, RequiredPredicates[i].caa) = << >>
                               /\ Objects(lastOp.data, RequiredPredicates[i].alt) = << >>}} :
            /\ (lastOp.raised = "no") = (unsupplied = {})
            /\ lastOp.raised # "no" =>
                  /\ lastOp.raised = "ValueError"
                  /\ \E i \in unsupplied : lastOp.names = RequiredPredicates[i].caa
            /\ lastOp.raised = "no" =>
                  \A i \in 1..Len(RequiredPredicates) :
                      \A primary \in {Objects(lastOp.data, RequiredPredicates[i].caa)} :
                          Val(lastOp.ret).metadata[RequiredPredicates[i].key]
                              \in (IF primary # << >> THEN Range(primary)
                                   ELSE Range(Objects(lastOp.data, RequiredPredicates[i].alt)))

\* a model was returned from a graph that gives the name under both
\* predicates with different values, and the description under the
\* secondary predicate only
C34_Witness ==
    /\ lastOp.op = "parser._parse_turtle"
    /\ lastOp.raised = "no"
    /\ Objects(lastOp.data, "rdfs:label") = <<NameOk>>
    /\ Objects(lastOp.data, "domain:domainName") = <<NameB>>
    /\ Objects(lastOp.data, "rdfs:comment") = << >>
    /\ Objects(lastOp.data, "domain:description") = <<StrAb>>
    /\ Val(lastOp.ret).metadata.domain_name = NameOk
    /\ Val(lastOp.ret).metadata.description = StrAb

\* the predicates of the four multi-valued attributes
ListPredicates ==
    <<[key |-> "capabilities", caa |-> "caa:capability", alt |-> "domain:capability"],
      [key |-> "tools", caa |-> "caa:usesTool", alt |-> "domain:tool"],
      [key |-> "rule_sets", caa |-> "caa:appliesRules", alt |-> "domain:ruleSet"],
      [key |-> "expertise_keywords", caa |-> "caa:expertiseKeyword",
       alt |-> "domain:expertiseKeyword"]>>

\* how often a value occurs in a sequence
Count(seq, v) == Cardinality({i \in 1..Len(seq) : seq[i] = v})

\* no element of the sequence is less than one before it
Ascending(strs) == \A i, j \in 1..Len(strs) : i < j => ~StrLess(strs[j], strs[i])

\* C35: for each multi-valued attribute the graph parser returns all
\* objects of the primary-namespace predicate when there is at least one,
\* all objects of the secondary-namespace predicate only when the primary
\* yields none (the two are never mixed), and an empty sequence when both
\* yield none; the result is always sorted lexicographically, independent
\* of the order of statements in the document.
C35_ListsFromOneNamespace ==
    (lastOp.op = "parser._parse_turtle" /\ lastOp.raised = "no") =>
        \A i \in 1..Len(ListPredicates) :
            \A primary \in {Objects(lastOp.data, ListPredicates[i].caa)} :
                \A source \in {IF primary # << >> THEN primary
                               ELSE Objects(lastOp.data, ListPredicates[i].alt)} :
                    \A result \in {Val(lastOp.ret).metadata[ListPredicates[i].key]} :
                        /\ Len(result) = Len(source)
                        /\ \A v \in Range(source) \cup Range(result) :
                              Count(result, v) = Count(source, v)
                        /\ Ascending(result)

\* a model was returned from a graph whose capabilities stand under both
\* predicates, the primary ones yielded out of order, and whose tools stand
\* under the secondary predicate only
C35_Witness ==
    /\ lastOp.op = "parser._parse_turtle"
    /\ lastOp.raised = "no"
    /\ Objects(lastOp.data, "caa:capability") = <<StrUpperB, StrAb, StrA>>
    /\ Objects(lastOp.data, "domain:capability") = <<StrB, StrUpperB>>
    /\ Objects(lastOp.data, "caa:usesTool") = << >>
    /\ Objects(lastOp.data, "domain:tool") = <<StrAb, StrA>>
    /\ Val(lastOp.ret).metadata.capabilities = <<StrUpperB, StrA, StrAb>>
    /\ Val(lastOp.ret).metadata.tools = <<StrA, StrAb>>
    /\ Val(lastOp.ret).metadata.rule_sets = << >>

\* the tasks of the preload call an operation record describes
PreloadTasks(d) == d.first..d.last

\* the domain_ids of the files of a list whose load succeeds, in the order
\* of the list
RECURSIVE IdsOfLoadable(_)
IdsOfLoadable(files) ==
    IF files = << >> THEN << >>
    ELSE (IF load_domain_model(Head(files)).raised = "no"
          THEN <<Val(load_domain_model(Head(files)).ret).metadata.domain_id>>
          ELSE << >>) \o IdsOfLoadable(Tail(files))

\* C37: preload_domain_models raises nothing; with preload off or no files
\* configured it returns the empty list; otherwise one load has run to its
\* end for every configured file, the list returned holds the domain_ids of
\* the loads that succeeded in the order of the configured files, and every
\* model so loaded on the framework the manager still has is registered and
\* cached, whatever happened to the other files.
C37_PreloadBestEffort ==
    lastOp.op = "manager.preload" =>
        /\ lastOp.raised = "no"
        /\ \A d \in {lastOp.data} :
              IF ~d.config.preload \/ d.config.files = << >>
              THEN lastOp.ret = Some(<< >>)
              ELSE /\ d.last - d.first + 1 = Len(d.config.files)
                   /\ \A t \in PreloadTasks(d) :
                         /\ tasks[t].file = d.config.files[t - d.first + 1]
                         /\ tasks[t].pc = "done"
                         /\ Len(CompletionsOf(t)) = 1
                         /\ Succeeded(t) /\ OnCurrentFramework(t) =>
                               \A m \in {Val(CompletionsOf(t)[1].ret).metadata} :
                                  /\ <<m.domain_id, m.version>> \in registered
                                  /\ m.domain_id \in DOMAIN cache
                   /\ lastOp.ret = Some(IdsOfLoadable(d.config.files))

\* a preload of two files has returned: the load of the first failed, the
\* second is registered and cached and is the one id returned
C37_Witness ==
    /\ lastOp.op = "manager.preload"
    /\ lastOp.data.last = lastOp.data.first + 1
    /\ ~Succeeded(lastOp.data.first)
    /\ Succeeded(lastOp.data.last)
    /\ OnCurrentFramework(lastOp.data.last)
    /\ Len(Val(lastOp.ret)) = 1
    /\ Val(lastOp.ret)[1] \in DOMAIN cache

\* the framework the manager has or will build holds nothing
FreshFramework ==
    /\ models = EmptyDict
    /\ version_history = EmptyDict
    /\ registered = {}
    /\ cache = EmptyDict
    /\ stats = [hits |-> 0, misses |-> 0, size |-> 0]
    /\ metrics = [load_count |-> 0, parse_error_count |-> 0, validation_error_count |-> 0]

\* a load of the model has run to its end on the framework the manager has
LoadedOnCurrent(domain_id) ==
    \E t \in 1..Len(tasks) :
        /\ OnCurrentFramework(t)
        /\ Succeeded(t)
        /\ Val(CompletionsOf(t)[1].ret).metadata.domain_id = domain_id

\* C38: after load() the manager has no framework, and the one it builds
\* next starts with an empty registry, an empty cache and zeroed metrics;
\* whatever the manager's framework holds or returns was loaded on that
\* very framework, so a model loaded before a reload is not retrievable,
\* and a load that ends on a discarded framework leaves no trace in it.
C38_ReloadStartsAfresh ==
    /\ lastOp.op = "manager.load" => IsNone(manager._framework)
    /\ IsNone(manager._framework) => FreshFramework
    /\ \A domain_id \in IdPool :
          \/ domain_id \in DOMAIN models
          \/ domain_id \in DOMAIN cache
          \/ domain_id \in DOMAIN version_history
          \/ \E v \in VersionPool : <<domain_id, v>> \in registered
          => LoadedOnCurrent(domain_id)
    /\ lastOp.op = "manager.get" /\ ~IsNone(lastOp.ret) => LoadedOnCurrent(lastOp.id)

\* a load started before a reload has ended successfully on the discarded
\* framework, and the framework built after the reload holds nothing
C38_Witness ==
    /\ lastOp.op = "facade.load"
    /\ lastOp.raised = "no"
    /\ completed # << >>
    /\ \A c \in {completed[Len(completed)]} :
          /\ c.raised = "no"
          /\ manager._framework = Some(tasks[c.task].fw + 1)
    /\ FreshFramework

====
